---- MODULE Spec2Model ----
(***************************************************************************)
(* Turn orchestration and tool invocation of the Neuro VTuber agent:      *)
(* the shared Signals object, the Prompter scheduling loop, the primary   *)
(* generation path (AbstractLLMWrapper.prompt, run on the scheduler       *)
(* thread) and the tool-invocation pass (ToolLLMWrapper._async_prompt,    *)
(* run on its own executor thread).                                       *)
(***************************************************************************)
EXTENDS Integers, Sequences, FiniteSets, TLC

(***************************************************************************)
(* Bounds of the model.                                                    *)
(***************************************************************************)
\* number of chat messages the model lets arrive
MaxUserMessages == 1
\* number of assistant entries the model lets the history grow to
MaxTurns == 2
\* number of stream events one primary completion delivers at most
MaxChunks == 1
\* number of stream events one tool completion delivers at most
MaxToolEvents == 1
\* number of times the wall clock jumps forward
MaxClockSteps == 1
\* token estimate of a long chat message
LongMessageTokens == 7000
\* length of the histories the primary path is started with on its own
MaxPathHistory == 3
\* number of execute_with_monitoring calls made on one tool
MaxExecutions == 52
\* number of those calls that raise
MaxFailedExecutions == 1
\* number of slow executions among the samples of the buffer
MaxSlowExecutions == 1
\* number of documents a query of the vector index returns at most
MaxHits == 2
\* number of execute_with_monitoring calls of one tool that overlap
MaxInFlight == 2
\* number of uses the overlapping calls let the tool count
MaxOverlapUses == 3
\* number of tool calls one completion of the tool pass asks for
MaxBatch == 5

(***************************************************************************)
(* Program constants.                                                      *)
(***************************************************************************)
PATIENCE == 60
CONTEXT_SIZE == 8192
MULTIMODAL_CONTEXT_SIZE == 1000
\* token estimate of constants.SYSTEM_PROMPT (about 2800 characters)
SystemPromptTokens == 650
\* BaseTool.execute_with_monitoring: samples kept in _performance_history
PERFORMANCE_WINDOW == 50
\* ToolSelectionContext.max_tools
DEFAULT_MAX_TOOLS == 6
\* DynamicToolManager._get_fallback_tools: tools returned at most
FALLBACK_MAX_TOOLS == 3

\* one jump of the wall clock: just over the patience threshold
ClockStep == PATIENCE + 1
MaxTime == 1 + MaxClockSteps * ClockStep

(***************************************************************************)
(* Text.  A text is a sequence of fragments; SP is white space, OPEN is    *)
(* the literal "[TOOL_TRIGGER:" and CLOSE is "]".                          *)
(***************************************************************************)
SP == " "
OPEN == "[TOOL_TRIGGER:"
CLOSE == "]"
HOST_NAME == "John: "
AI_NAME == "Luna: "
NL == "\n"
FILTERED == <<"Filtered.">>

\* the stream chunks the completion service may send to a primary path
Chunks == { <<"hi">>,
            <<"hi", SP, OPEN, "req", CLOSE>>,
            <<OPEN, "req", CLOSE, SP, "hi", SP, OPEN, "req", CLOSE>>,
            <<"hi", SP, OPEN, "req">> }
\* the texts an inbound chat message may carry
UserTexts == { <<"LONG">> }

Contains(text, frag) == \E i \in 1..Len(text) : text[i] = frag

\* str.strip(): remove leading and trailing white space
RECURSIVE LStrip(_)
LStrip(text) ==
    IF text # <<>> /\ Head(text) = SP THEN LStrip(Tail(text)) ELSE text

RECURSIVE RStrip(_)
RStrip(text) ==
    IF text # <<>> /\ text[Len(text)] = SP
    THEN RStrip(SubSeq(text, 1, Len(text) - 1))
    ELSE text

Strip(text) == RStrip(LStrip(text))

\* positions (i, j) of the leftmost match of \[TOOL_TRIGGER:(.*?)\] in text
\* at or after position from: the first OPEN that has a CLOSE behind it, and
\* the nearest such CLOSE; <<0, 0>> when there is none
MatchFrom(text, from) ==
    LET starts == { i \in from..Len(text) :
                      /\ text[i] = OPEN
                      /\ \E j \in (i+1)..Len(text) : text[j] = CLOSE }
    IN IF starts = {} THEN <<0, 0>>
       ELSE LET i == CHOOSE s \in starts : \A t \in starts : s <= t
                j == CHOOSE c \in (i+1)..Len(text) :
                        /\ text[c] = CLOSE
                        /\ \A d \in (i+1)..(c-1) : text[d] # CLOSE
            IN <<i, j>>

\* re.search(r'\[TOOL_TRIGGER:(.*?)\]', text)
ReSearch(text) == MatchFrom(text, 1)

\* match.group(1)
Group1(text, m) == SubSeq(text, m[1] + 1, m[2] - 1)

\* re.sub(r'\[TOOL_TRIGGER:.*?\]', '', text): delete every match, left to right
RECURSIVE ReSubFrom(_, _)
ReSubFrom(text, from) ==
    LET m == MatchFrom(text, from)
    IN IF m = <<0, 0>> THEN SubSeq(text, from, Len(text))
       ELSE SubSeq(text, from, m[1] - 1) \o ReSubFrom(text, m[2] + 1)

ReSub(text) == ReSubFrom(text, 1)

(***************************************************************************)
(* State.                                                                  *)
(***************************************************************************)
VARIABLES
    \* Signals (src/signals.py)
    human_speaking, AI_speaking, AI_thinking,
    text_llm_thinking, tool_llm_thinking, image_llm_thinking,
    last_message_time, new_message, tts_ready, stt_ready,
    recentTwitchMessages, history, terminate,
    \* attributes the wrappers attach to Signals
    tool_execution_needed, tool_trigger_request, tool_results,
    \* llmState, shared by every wrapper
    enabled, next_cancelled,
    \* Prompter
    pending_tool_future, timeSinceLastMessage,
    \* the scheduler thread: position in prompt_loop / prompt / generate_prompt
    pc, wrapper, messages, tool_injections, full_prompt, AI_message, streamed,
    \* the tool thread: position in _async_prompt and its locals
    tpc, tool_request, tool_calls, tool_message, tool_streamed,
    \* collaborators: text handed to the TTS, the wall clock
    tts_text, now,
    \* bookkeeping of the analysis (no effect on the program's behaviour):
    \* executor threads alive, narrative the running prompt assembly has read,
    \* whether the raised trigger arrived during an outstanding pass, how the
    \* last primary turn and the last tool pass ended
    tool_passes_running, narrative_due, stale_trigger, turn_outcome, tool_outcome,
    \* why the running primary turn was started ("idle": by patience alone, with
    \* no tool results pending)
    turn_cause,
    \* the AI_thinking events the latest step put on Signals.sio_queue
    sio_put,
    \* ToolRegistry (src/tools/registry/tool_registry.py) and the value its
    \* latest call returned
    tools, tool_groups, reg_return,
    \* one BaseTool (src/tools/base/tool_base.py): its ToolMetadata, its
    \* _performance_history, whether a progress callback is set, and how its
    \* latest execute_with_monitoring call ended
    metadata, performance_history, progress_callback, exec_return,
    \* one select_relevant_tools call of the DynamicToolManager: its context,
    \* the state of the vector index and what it returned
    selection,
    \* one handle_failure call of the ToolFailureHandler: its arguments, the
    \* message random.choice picked and the response
    failure,
    \* the execute_with_monitoring calls of the tool that have counted their
    \* use and are suspended at an await
    in_flight

sigFlags == <<human_speaking, AI_speaking, AI_thinking, text_llm_thinking,
              tool_llm_thinking, image_llm_thinking>>
sigReady == <<tts_ready, stt_ready>>
sigTool == <<tool_execution_needed, tool_trigger_request, tool_results>>
llmState == <<enabled, next_cancelled>>
schedLocals == <<wrapper, messages, tool_injections, full_prompt, AI_message, streamed>>
toolLocals == <<tool_request, tool_calls, tool_message, tool_streamed>>

\* the tool subsystem
toolSystem == <<tools, tool_groups, reg_return, metadata, performance_history,
                progress_callback, exec_return, selection, failure, in_flight>>

\* the turn orchestration
orchestration == <<sigFlags, last_message_time, new_message, sigReady,
                   recentTwitchMessages, history, terminate, sigTool, llmState,
                   pending_tool_future, timeSinceLastMessage, pc, schedLocals,
                   tpc, toolLocals, tts_text, now,
                   tool_passes_running, narrative_due, stale_trigger, turn_outcome,
                   tool_outcome, turn_cause, sio_put>>

vars == <<orchestration, toolSystem>>

ghosts == <<tool_passes_running, narrative_due, stale_trigger, turn_outcome,
            tool_outcome, turn_cause>>

None == "None"

\* Signals._update_combined_thinking: the value AI_thinking holds afterwards
UpdateCombinedThinking(text, tool, image) == text \/ tool \/ image

\* Signals._update_combined_thinking lines 175-177: the AI_thinking event it
\* enqueues when AI_thinking holds cur beforehand
UpdateCombinedEvents(cur, text, tool, image) ==
    IF UpdateCombinedThinking(text, tool, image) # cur
    THEN <<UpdateCombinedThinking(text, tool, image)>> ELSE <<>>

\* Signals.AI_thinking setter lines 63-64: the event it enqueues
SetAIThinkingEvents(value) == <<value>>

\* a step that puts no AI_thinking event on the queue
NoEvent == sio_put' = <<>>

\* no registry call has been made
NoRegistryCall ==
    [op |-> None, tool |-> [id |-> 0, name |-> None, type |-> None, status |-> None],
     name |-> None, group |-> None, ret |-> FALSE, raised |-> FALSE,
     again |-> FALSE, listed |-> 0]

\* ToolMetadata defaults; average_response_time is kept as the quotient sum : n
FreshMetadata ==
    [status |-> "available", usage_count |-> 0, error_count |-> 0,
     average_response_time |-> [sum |-> 0, n |-> 1], is_running |-> FALSE]

\* execute_with_monitoring has not been called
NoExecution == [kind |-> None, raised_in |-> None, call |-> 0]

\* ToolRegistry.__init__, ToolMetadata defaults and BaseTool.__init__; no
\* selection has been made
ToolSystemInit ==
    /\ tools = <<>>
    /\ tool_groups = <<>>
    /\ reg_return = NoRegistryCall
    /\ metadata = FreshMetadata
    /\ performance_history = <<>>
    /\ progress_callback = FALSE
    /\ exec_return = NoExecution
    /\ selection = None
    /\ failure = None
    /\ in_flight = 0

\* Signals.__init__, LLMState defaults and Prompter.__init__
SignalsInit ==
    /\ human_speaking = FALSE
    /\ AI_speaking = FALSE
    /\ AI_thinking = FALSE
    /\ text_llm_thinking = FALSE
    /\ tool_llm_thinking = FALSE
    /\ image_llm_thinking = FALSE
    /\ last_message_time = 0
    /\ new_message = FALSE
    /\ tts_ready = FALSE
    /\ stt_ready = FALSE
    /\ recentTwitchMessages = 0
    /\ history = <<>>
    /\ terminate = FALSE
    /\ tool_execution_needed = FALSE
    /\ tool_trigger_request = <<>>
    /\ tool_results = <<>>
    /\ enabled = TRUE
    /\ next_cancelled = FALSE
    /\ pending_tool_future = None
    /\ timeSinceLastMessage = 0
    /\ pc = "loop"
    /\ wrapper = None
    /\ messages = <<>>
    /\ tool_injections = <<>>
    /\ full_prompt = <<>>
    /\ AI_message = <<>>
    /\ streamed = 0
    /\ tpc = "idle"
    /\ tool_request = <<>>
    /\ tool_calls = 0
    /\ tool_message = <<>>
    /\ tool_streamed = 0
    /\ tts_text = None
    /\ now = 1
    /\ tool_passes_running = 0
    /\ narrative_due = <<>>
    /\ stale_trigger = FALSE
    /\ turn_outcome = None
    /\ tool_outcome = None
    /\ turn_cause = None
    /\ sio_put = <<>>

Init == SignalsInit /\ ToolSystemInit

(***************************************************************************)
(* Tool results and prompt assembly (AbstractLLMWrapper).                  *)
(***************************************************************************)
\* an entry handle_tool_calls appends: the call's id and the raw result stored
\* with it (of: the call that produced the raw result)
RawEntry(id, of, outcome) ==
    [kind |-> "raw", id |-> id, of |-> of, outcome |-> outcome, status |-> None]

\* a tool status message written by _async_prompt
StatusEntry(status) ==
    [kind |-> "status", id |-> 0, of |-> 0, outcome |-> None, status |-> status]

FailureStatuses == {"no_tools_needed", "execution_failed", "no_tool_calls", "error"}

ResultFrag(id) ==
    CASE id = 1 -> "Retrieved information: r1"
      [] id = 2 -> "Retrieved information: r2"
      [] OTHER -> "Retrieved information: rN"

FAILURE_NOTE == <<"The external lookup couldn't be completed right now.">>

\* _process_tool_results_naturally: <<>> stands for the None it returns
RECURSIVE ContextParts(_)
ContextParts(results) ==
    IF results = <<>> THEN <<>>
    ELSE LET r == Head(results)
         IN (IF r.kind = "raw" /\ r.outcome = "success"
             THEN <<ResultFrag(r.of)>> ELSE <<>>) \o ContextParts(Tail(results))

\* the first failure status in the list returns at once; raw entries before it
\* only collect context parts
RECURSIVE HasFailureStatus(_)
HasFailureStatus(results) ==
    IF results = <<>> THEN FALSE
    ELSE \/ Head(results).kind = "status" /\ Head(results).status \in FailureStatuses
         \/ HasFailureStatus(Tail(results))

ProcessToolResultsNaturally(results) ==
    IF HasFailureStatus(results) THEN FAILURE_NOTE
    ELSE IF ContextParts(results) # <<>>
         THEN <<"Relevant information found:">> \o ContextParts(results)
              \o <<"Use this information to provide an accurate response.">>
         ELSE <<>>

Injection(text, priority) == [text |-> text, priority |-> priority]

\* sorted(injections, key=priority): stable insertion sort
RECURSIVE InsertByPriority(_, _)
InsertByPriority(inj, sorted) ==
    IF sorted = <<>> THEN <<inj>>
    ELSE IF inj.priority < Head(sorted).priority THEN <<inj>> \o sorted
    ELSE <<Head(sorted)>> \o InsertByPriority(inj, Tail(sorted))

RECURSIVE SortByPriority(_)
SortByPriority(injections) ==
    IF injections = <<>> THEN <<>>
    ELSE InsertByPriority(injections[Len(injections)],
                          SortByPriority(SubSeq(injections, 1, Len(injections) - 1)))

RECURSIVE ConcatTexts(_)
ConcatTexts(injections) ==
    IF injections = <<>> THEN <<>>
    ELSE Head(injections).text \o ConcatTexts(Tail(injections))

\* assemble_injections with no extra modules configured
AssembleInjections(injections) == ConcatTexts(SortByPriority(injections))

\* generate_prompt, lines 100-107: the labelled deep copy of history
LabelMessage(m) ==
    IF m.content = <<>> THEN m
    ELSE IF m.role = "user"
         THEN [m EXCEPT !.content = <<HOST_NAME>> \o m.content \o <<NL>>]
         ELSE [m EXCEPT !.content = <<AI_NAME>> \o m.content \o <<NL>>]

LabelledCopy(hist) == [i \in 1..Len(hist) |-> LabelMessage(hist[i])]

RECURSIVE ChatSection(_)
ChatSection(msgs) ==
    IF msgs = <<>> THEN <<>> ELSE Head(msgs).content \o ChatSection(Tail(msgs))

\* len(self.tokenizer.encode(text)): the estimate is additive over fragments
RECURSIVE TokenCount(_)
TokenCount(text) ==
    IF text = <<>> THEN 0
    ELSE (CASE Head(text) = "SYSTEM_PROMPT" -> SystemPromptTokens
            [] Head(text) = "LONG" -> LongMessageTokens
            [] Head(text) = "Retrieved information: rN" -> LongMessageTokens
            [] OTHER -> 1) + TokenCount(Tail(text))

ContextSizeOf(w) == IF w = "image" THEN MULTIMODAL_CONTEXT_SIZE ELSE CONTEXT_SIZE

\* a budget test against the whole context size
FitsWholeBudget(text, w) == TokenCount(text) < ContextSizeOf(w)

\* prompt_tokens < 0.9 * self.CONTEXT_SIZE
FitsBudget(text, w) == 10 * TokenCount(text) < 9 * ContextSizeOf(w)

\* full_prompt of one pass of the while loop of generate_prompt
FullPrompt(msgs, toolInj) ==
    AssembleInjections(<<Injection(<<"SYSTEM_PROMPT">>, 10)>> \o toolInj
                       \o <<Injection(ChatSection(msgs), 100)>>) \o <<AI_NAME>>

\* str.lower() on one fragment
Lower(frag) == IF frag = "Banana" THEN "banana" ELSE frag

\* str.split(): the maximal runs of fragments between white space
RECURSIVE Words(_, _)
Words(text, run) ==
    IF text = <<>> THEN (IF run = <<>> THEN <<>> ELSE <<run>>)
    ELSE IF Head(text) = SP
         THEN (IF run = <<>> THEN <<>> ELSE <<run>>) \o Words(Tail(text), <<>>)
         ELSE Words(Tail(text), Append(run, Lower(Head(text))))

\* llmState.blacklist as loaded at start-up
Blacklist == {"banana"}

\* is_filtered: some blacklisted word is a whole word of the lower-cased text
IsFiltered(text) ==
    \E i \in 1..Len(Words(text, <<>>)) :
        \E b \in Blacklist : Words(text, <<>>)[i] = <<Lower(b)>>

(***************************************************************************)
(* The scheduler thread: Prompter.prompt_loop.                             *)
(***************************************************************************)
\* number of entries of a role in a history
CountRole(hist, role) == Cardinality({i \in 1..Len(hist) : hist[i].role = role})

\* Prompter.prompt_now (None counts as False)
prompt_now ==
    IF ~stt_ready \/ ~tts_ready THEN FALSE
    ELSE IF human_speaking \/ AI_thinking \/ AI_speaking THEN FALSE
    ELSE IF new_message THEN TRUE
    ELSE IF recentTwitchMessages > 0 THEN TRUE
    ELSE timeSinceLastMessage > PATIENCE

\* pending_tool_future.done()
FutureDone == pending_tool_future # None /\ tpc = "done"

\* the completion check without the reset of line 73
FutureKept == pending_tool_future

\* prompt_loop lines 62-73: the future held after the completion check
FutureAfterPoll == IF FutureDone THEN None ELSE pending_tool_future

\* the dispatch without the single-flight test of line 77
StartsToolPassUnguarded == tool_execution_needed

\* prompt_loop lines 75-81: whether this tick starts a tool pass
StartsToolPass == tool_execution_needed /\ FutureAfterPoll = None

\* the clock upkeep that only covers the very first tick
ResetsClockAtStartOnly == last_message_time = 0

\* prompt_loop line 50: the program is still starting
ResetsClock == last_message_time = 0 \/ ~stt_ready \/ ~tts_ready

\* prompt_loop lines 48-81: clock upkeep, completion poll, tool dispatch
Tick ==
    /\ pc = "loop"
    /\ ~terminate
    /\ LET lmt == IF ResetsClock THEN now ELSE last_message_time
       IN /\ last_message_time' = lmt
          /\ timeSinceLastMessage' = now - lmt
    /\ pending_tool_future' = IF StartsToolPass THEN "future" ELSE FutureAfterPoll
    /\ tpc' = IF StartsToolPass THEN "start"
              ELSE IF FutureDone THEN "idle" ELSE tpc
    /\ tool_execution_needed' = IF StartsToolPass THEN FALSE ELSE tool_execution_needed
    /\ tool_passes_running' = IF StartsToolPass THEN tool_passes_running + 1
                              ELSE tool_passes_running
    /\ stale_trigger' = IF StartsToolPass THEN FALSE ELSE stale_trigger
    /\ tool_outcome' = IF StartsToolPass \/ FutureDone THEN None ELSE tool_outcome
    /\ turn_outcome' = None
    /\ pc' = "decide"
    /\ UNCHANGED <<sigFlags, new_message, sigReady, recentTwitchMessages, history,
                   terminate, tool_trigger_request, tool_results, llmState,
                   schedLocals, toolLocals, tts_text, now, narrative_due,
                   turn_cause>>
    /\ NoEvent
    /\ UNCHANGED toolSystem

\* prompt_loop line 48: the loop ends once terminate is set
LoopExit ==
    /\ pc = "loop"
    /\ terminate
    /\ pc' = "exited"
    /\ UNCHANGED <<sigFlags, last_message_time, new_message, sigReady,
                   recentTwitchMessages, history, terminate, sigTool, llmState,
                   pending_tool_future, timeSinceLastMessage, schedLocals,
                   tpc, toolLocals, tts_text, now, ghosts>>
    /\ NoEvent
    /\ UNCHANGED toolSystem

\* Prompter.chooseLLM: no multimodal module is configured
\* (constants.MULTIMODAL_STRATEGY is "never"), so the text wrapper is chosen
chooseLLM == "text"

\* a scheduler that would not wait for prompt() to return
SchedulerNotWaiting == pc \in {"decide", "stream"}

\* prompt_loop lines 83-90: prompt() is called on the scheduler thread itself,
\* so the thread is at the decision only when no call of prompt() is open
SchedulerAtDecide == pc = "decide"

\* prompt_loop lines 83-95: start a primary generation or sleep
Decide ==
    /\ SchedulerAtDecide
    /\ IF prompt_now
       THEN /\ CountRole(history, "assistant") < MaxTurns
            /\ wrapper' = chooseLLM
            /\ pc' = "prompt"
            /\ turn_cause' = IF ~new_message /\ recentTwitchMessages = 0
                                 /\ tool_results = <<>>
                              THEN "idle" ELSE None
       ELSE /\ wrapper' = wrapper
            /\ pc' = "loop"
            /\ turn_cause' = None
    /\ UNCHANGED <<sigFlags, last_message_time, new_message, sigReady,
                   recentTwitchMessages, history, terminate, sigTool, llmState,
                   pending_tool_future, timeSinceLastMessage,
                   messages, tool_injections, full_prompt, AI_message, streamed,
                   tpc, toolLocals, tts_text, now,
                   tool_passes_running, narrative_due, stale_trigger,
                   turn_outcome, tool_outcome>>
    /\ NoEvent
    /\ UNCHANGED toolSystem

\* a generate_prompt that labels the stored messages themselves
HistoryLabelledInPlace(hist) == LabelledCopy(hist)

\* generate_prompt line 100: the labels of lines 103-107 go to a deep copy, the
\* stored history keeps its entries
HistoryAfterLabelling(hist) == hist

\* AbstractLLMWrapper.prompt lines 155-166 and generate_prompt lines 100-107
PromptBegin ==
    /\ pc = "prompt"
    /\ IF ~enabled
       THEN \* return; prompt_loop line 92
            /\ last_message_time' = now
            /\ pc' = "loop"
            /\ turn_outcome' = "disabled"
            /\ turn_cause' = None
            /\ NoEvent
            /\ UNCHANGED <<text_llm_thinking, AI_thinking, new_message, messages,
                           history>>
       ELSE /\ text_llm_thinking' = TRUE
            /\ AI_thinking' = UpdateCombinedThinking(TRUE, tool_llm_thinking,
                                                     image_llm_thinking)
            /\ sio_put' = UpdateCombinedEvents(AI_thinking, TRUE, tool_llm_thinking,
                                               image_llm_thinking)
            /\ new_message' = FALSE
            /\ messages' = LabelledCopy(history)
            /\ history' = HistoryAfterLabelling(history)
            /\ pc' = "assemble"
            /\ UNCHANGED <<last_message_time, turn_outcome, turn_cause>>
    /\ UNCHANGED <<human_speaking, AI_speaking, tool_llm_thinking, image_llm_thinking,
                   sigReady, recentTwitchMessages, terminate, sigTool,
                   llmState, pending_tool_future, timeSinceLastMessage,
                   wrapper, tool_injections, full_prompt, AI_message, streamed,
                   tpc, toolLocals, tts_text, now,
                   tool_passes_running, narrative_due, stale_trigger, tool_outcome>>
    /\ UNCHANGED toolSystem

\* generate_prompt lines 110-125: read tool_results, build the tool injection
GeneratePromptRead ==
    /\ pc = "assemble"
    /\ tool_injections' =
          IF tool_results # <<>> /\ ProcessToolResultsNaturally(tool_results) # <<>>
          THEN <<Injection(ProcessToolResultsNaturally(tool_results), 30)>>
          ELSE <<>>
    /\ narrative_due' =
          IF tool_results # <<>> /\ ProcessToolResultsNaturally(tool_results) # <<>>
          THEN ProcessToolResultsNaturally(tool_results)
          ELSE narrative_due
    /\ pc' = "clear"
    /\ UNCHANGED <<sigFlags, last_message_time, new_message, sigReady,
                   recentTwitchMessages, history, terminate, sigTool, llmState,
                   pending_tool_future, timeSinceLastMessage,
                   wrapper, messages, full_prompt, AI_message, streamed,
                   tpc, toolLocals, tts_text, now,
                   tool_passes_running, stale_trigger, turn_outcome, tool_outcome,
                   turn_cause>>
    /\ NoEvent
    /\ UNCHANGED toolSystem

\* generate_prompt lines 127-150: clear tool_results, estimate, return or shrink
GeneratePromptCheck ==
    /\ pc = "clear"
    /\ tool_results' = <<>>
    /\ LET fp == FullPrompt(messages, tool_injections)
       IN IF FitsBudget(fp, wrapper)
          THEN /\ full_prompt' = fp
               /\ pc' = "request"
               /\ UNCHANGED messages
          ELSE IF Len(messages) < 1
          THEN \* RuntimeError("Prompt too long even with no messages")
               /\ pc' = "crashed"
               /\ UNCHANGED <<full_prompt, messages>>
          ELSE /\ messages' = Tail(messages)
               /\ pc' = "assemble"
               /\ UNCHANGED full_prompt
    /\ UNCHANGED <<sigFlags, last_message_time, new_message, sigReady,
                   recentTwitchMessages, history, terminate,
                   tool_execution_needed, tool_trigger_request, llmState,
                   pending_tool_future, timeSinceLastMessage,
                   wrapper, tool_injections, AI_message, streamed,
                   tpc, toolLocals, tts_text, now, ghosts>>
    /\ NoEvent
    /\ UNCHANGED toolSystem

\* the locals of prompt() go out of scope when it returns
ResetSchedLocals ==
    /\ wrapper' = None
    /\ messages' = <<>>
    /\ tool_injections' = <<>>
    /\ full_prompt' = <<>>
    /\ AI_message' = <<>>
    /\ streamed' = 0
    /\ narrative_due' = <<>>
    /\ turn_cause' = None

\* prompt lines 171-187: the streaming request succeeds
RequestOk ==
    /\ pc = "request"
    /\ AI_message' = <<>>
    /\ streamed' = 0
    /\ pc' = "stream"
    /\ UNCHANGED <<sigFlags, last_message_time, new_message, sigReady,
                   recentTwitchMessages, history, terminate, sigTool, llmState,
                   pending_tool_future, timeSinceLastMessage,
                   wrapper, messages, tool_injections, full_prompt,
                   tpc, toolLocals, tts_text, now, ghosts>>
    /\ NoEvent
    /\ UNCHANGED toolSystem

\* prompt lines 176-185: non-200 status or request exception, then
\* prompt_loop line 92
RequestFails ==
    /\ pc = "request"
    /\ AI_thinking' = FALSE
    /\ sio_put' = SetAIThinkingEvents(FALSE)
    /\ last_message_time' = now
    /\ pc' = "loop"
    /\ turn_outcome' = "failed"
    /\ ResetSchedLocals
    /\ UNCHANGED <<human_speaking, AI_speaking, text_llm_thinking, tool_llm_thinking,
                   image_llm_thinking, new_message, sigReady,
                   recentTwitchMessages, history, terminate, sigTool, llmState,
                   pending_tool_future, timeSinceLastMessage,
                   tpc, toolLocals, tts_text, now,
                   tool_passes_running, stale_trigger, tool_outcome>>
    /\ UNCHANGED toolSystem

\* prompt lines 188-214: one stream event; skipped while next_cancelled is set
StreamEvent(chunk) ==
    /\ pc = "stream"
    /\ streamed < MaxChunks
    /\ streamed' = streamed + 1
    /\ AI_message' = IF next_cancelled THEN AI_message ELSE AI_message \o chunk
    /\ UNCHANGED <<sigFlags, last_message_time, new_message, sigReady,
                   recentTwitchMessages, history, terminate, sigTool, llmState,
                   pending_tool_future, timeSinceLastMessage, pc,
                   wrapper, messages, tool_injections, full_prompt,
                   tpc, toolLocals, tts_text, now, ghosts>>
    /\ NoEvent
    /\ UNCHANGED toolSystem

\* the end of the stream without the test of line 216
CancelIgnored == FALSE

\* prompt line 216: the cancel flag as read once the stream has ended
CancelObserved == next_cancelled

\* prompt line 224 and 227-228: the marker is present and the pattern matches
ToolTriggered(text) == Contains(text, OPEN) /\ ReSearch(text) # <<0, 0>>

\* prompt lines 229-233: the message with every matched marker removed
CleanMessage(text) == IF ToolTriggered(text) THEN Strip(ReSub(text)) ELSE text

\* prompt lines 248-249
FilterMessage(text) == IF IsFiltered(text) THEN FILTERED ELSE text

\* prompt lines 216-260 once the stream has ended, then prompt_loop line 92
PrimaryFinish ==
    /\ pc = "stream"
    /\ IF CancelObserved
       THEN /\ next_cancelled' = FALSE
            /\ AI_thinking' = FALSE
            /\ sio_put' = SetAIThinkingEvents(FALSE)
            /\ turn_outcome' = "cancelled"
            /\ UNCHANGED <<AI_speaking, text_llm_thinking, history, tts_text,
                           tool_execution_needed, tool_trigger_request,
                           stale_trigger>>
       ELSE /\ IF ToolTriggered(AI_message)
               THEN /\ tool_trigger_request' = Strip(Group1(AI_message, ReSearch(AI_message)))
                    /\ tool_execution_needed' = TRUE
                    /\ stale_trigger' = (pending_tool_future # None /\ tpc # "done")
               ELSE UNCHANGED <<tool_trigger_request, tool_execution_needed,
                                stale_trigger>>
            /\ AI_speaking' = TRUE
            /\ text_llm_thinking' = FALSE
            /\ AI_thinking' = UpdateCombinedThinking(FALSE, tool_llm_thinking,
                                                     image_llm_thinking)
            /\ sio_put' = UpdateCombinedEvents(AI_thinking, FALSE, tool_llm_thinking,
                                               image_llm_thinking)
            /\ history' = Append(history,
                   [role |-> "assistant",
                    content |-> FilterMessage(CleanMessage(AI_message))])
            /\ tts_text' = FilterMessage(CleanMessage(AI_message))
            /\ turn_outcome' = "spoken"
            /\ UNCHANGED next_cancelled
    /\ last_message_time' = now
    /\ pc' = "loop"
    /\ ResetSchedLocals
    /\ UNCHANGED <<human_speaking, tool_llm_thinking, image_llm_thinking,
                   new_message, sigReady, recentTwitchMessages, terminate,
                   tool_results, enabled, pending_tool_future,
                   timeSinceLastMessage, tpc, toolLocals, now,
                   tool_passes_running, tool_outcome>>
    /\ UNCHANGED toolSystem

(***************************************************************************)
(* The tool thread: ToolLLMWrapper._async_prompt, submitted to its own     *)
(* executor by prompt_async.                                               *)
(***************************************************************************)
\* what the execution of one tool call can come to: the tool returns a success
\* payload, the tool returns or is turned into an error payload, or no raw
\* result is bound (unknown tool, or an exception before the tool returned)
ToolOutcomes == {"success", "error", "unbound"}

\* handle_tool_calls over calls 1..n; bound is the raw result the local
\* tool_result holds (of = 0: not yet bound).  Returns the results list, or
\* raised = TRUE when line 226 reads the unbound local.
RECURSIVE HandleToolCallsFrom(_, _, _, _)
HandleToolCallsFrom(i, n, outcomes, bound) ==
    IF i > n THEN [raised |-> FALSE, results |-> <<>>]
    ELSE LET b == IF outcomes[i] = "unbound" THEN bound
                  ELSE [of |-> i, outcome |-> outcomes[i]]
         IN IF b.of = 0 THEN [raised |-> TRUE, results |-> <<>>]
            ELSE LET rest == HandleToolCallsFrom(i + 1, n, outcomes, b)
                 IN [raised |-> rest.raised,
                     results |-> <<RawEntry(i, b.of, b.outcome)>> \o rest.results]

HandleToolCalls(n, outcomes) ==
    HandleToolCallsFrom(1, n, outcomes, [of |-> 0, outcome |-> None])

\* a wrapper that stores the text of the pass like a primary turn does
ToolHistorySaved(hist, text) ==
    Append(hist, [role |-> "assistant", content |-> text])

\* ToolLLMWrapper.__init__ line 37 (save_to_history = False) and _async_prompt
\* lines 399-401: the pass returns without storing its text
ToolHistoryAfter(hist, text) == hist

\* the thread ends: the future becomes done
ToolReturn(outcome) ==
    /\ tpc' = "done"
    /\ history' = ToolHistoryAfter(history, tool_message)
    /\ tool_outcome' = outcome
    /\ tool_passes_running' = tool_passes_running - 1
    /\ tool_request' = <<>>
    /\ tool_calls' = 0
    /\ tool_message' = <<>>
    /\ tool_streamed' = 0

\* _async_prompt lines 294-305 with prepare_payload reading the request
ToolBegin ==
    /\ tpc = "start"
    /\ IF ~enabled
       THEN /\ ToolReturn("disabled")
            /\ NoEvent
            /\ UNCHANGED <<tool_llm_thinking, AI_thinking, new_message>>
       ELSE /\ tool_llm_thinking' = TRUE
            /\ AI_thinking' = UpdateCombinedThinking(text_llm_thinking, TRUE,
                                                     image_llm_thinking)
            /\ sio_put' = UpdateCombinedEvents(AI_thinking, text_llm_thinking, TRUE,
                                               image_llm_thinking)
            /\ new_message' = FALSE
            /\ tool_request' = tool_trigger_request
            /\ tpc' = "request"
            /\ UNCHANGED <<tool_calls, tool_message, tool_streamed,
                           tool_passes_running, tool_outcome, history>>
    /\ UNCHANGED <<human_speaking, AI_speaking, text_llm_thinking, image_llm_thinking,
                   last_message_time, sigReady, recentTwitchMessages,
                   terminate, sigTool, llmState, pending_tool_future,
                   timeSinceLastMessage, pc, schedLocals, tts_text, now,
                   narrative_due, stale_trigger, turn_outcome, turn_cause>>
    /\ UNCHANGED toolSystem

\* _async_prompt lines 313-320: the streaming request succeeds
ToolRequestOk ==
    /\ tpc = "request"
    /\ tpc' = "stream"
    /\ UNCHANGED <<sigFlags, last_message_time, new_message, sigReady,
                   recentTwitchMessages, history, terminate, sigTool, llmState,
                   pending_tool_future, timeSinceLastMessage, pc, schedLocals,
                   toolLocals, tts_text, now, ghosts>>
    /\ NoEvent
    /\ UNCHANGED toolSystem

\* _async_prompt line 305: prepare_payload raises before the try block is
\* entered; _sync_prompt_wrapper catches the exception and returns None
ToolPayloadFails ==
    /\ tpc = "request"
    /\ ToolReturn("payload_error")
    /\ UNCHANGED <<sigFlags, last_message_time, new_message, sigReady,
                   recentTwitchMessages, terminate, sigTool, llmState,
                   pending_tool_future, timeSinceLastMessage, pc, schedLocals,
                   tts_text, now, narrative_due, stale_trigger, turn_outcome,
                   turn_cause>>
    /\ NoEvent
    /\ UNCHANGED toolSystem

\* an except branch that only records the error
ToolExceptBranchSilent(outcome) ==
    /\ tool_results' = <<StatusEntry("error")>>
    /\ new_message' = new_message
    /\ tool_llm_thinking' = FALSE
    /\ AI_thinking' = UpdateCombinedThinking(text_llm_thinking, FALSE,
                                             image_llm_thinking)
    /\ sio_put' = UpdateCombinedEvents(AI_thinking, text_llm_thinking,
                                       FALSE, image_llm_thinking)
    /\ ToolReturn(outcome)

\* _async_prompt lines 404-409: the except branch
ToolExceptBranch(outcome) ==
    /\ tool_results' = <<StatusEntry("error")>>
    /\ new_message' = TRUE
    /\ tool_llm_thinking' = FALSE
    /\ AI_thinking' = UpdateCombinedThinking(text_llm_thinking, FALSE,
                                             image_llm_thinking)
    /\ sio_put' = UpdateCombinedEvents(AI_thinking, text_llm_thinking,
                                       FALSE, image_llm_thinking)
    /\ ToolReturn(outcome)

\* _async_prompt lines 313-317 raising
ToolRequestFails ==
    /\ tpc = "request"
    /\ ToolExceptBranch("request_error")
    /\ UNCHANGED <<human_speaking, AI_speaking, text_llm_thinking, image_llm_thinking,
                   last_message_time, sigReady, recentTwitchMessages,
                   terminate, tool_execution_needed, tool_trigger_request,
                   llmState, pending_tool_future, timeSinceLastMessage, pc,
                   schedLocals, tts_text, now,
                   narrative_due, stale_trigger, turn_outcome, turn_cause>>
    /\ UNCHANGED toolSystem

\* _async_prompt lines 322-362: one stream event, a content chunk or the
\* delta of a further tool call; skipped while next_cancelled is set
ToolStreamEvent(ev) ==
    /\ tpc = "stream"
    /\ tool_streamed < MaxToolEvents
    /\ tool_streamed' = tool_streamed + 1
    /\ IF next_cancelled
       THEN UNCHANGED <<tool_calls, tool_message>>
       ELSE IF ev = "call"
       THEN /\ tool_calls' = tool_calls + 1
            /\ UNCHANGED tool_message
       ELSE /\ tool_message' = Append(tool_message, ev)
            /\ UNCHANGED tool_calls
    /\ UNCHANGED <<sigFlags, last_message_time, new_message, sigReady,
                   recentTwitchMessages, history, terminate, sigTool, llmState,
                   pending_tool_future, timeSinceLastMessage, pc, schedLocals,
                   tpc, tool_request, tts_text, now, ghosts>>
    /\ NoEvent
    /\ UNCHANGED toolSystem

\* _async_prompt lines 364-376 once the stream has ended: cancelled, or the
\* service said no tool is needed, or go on to the tool calls
ToolStreamEnd ==
    /\ tpc = "stream"
    /\ IF next_cancelled
       THEN /\ next_cancelled' = FALSE
            /\ tool_llm_thinking' = FALSE
            /\ AI_thinking' = UpdateCombinedThinking(text_llm_thinking, FALSE,
                                                     image_llm_thinking)
            /\ sio_put' = UpdateCombinedEvents(AI_thinking, text_llm_thinking,
                                               FALSE, image_llm_thinking)
            /\ ToolReturn("cancelled")
            /\ UNCHANGED <<tool_results, new_message>>
       ELSE IF Contains(tool_message, "NO_TOOLS_NEEDED")
       THEN /\ tool_results' = <<StatusEntry("no_tools_needed")>>
            /\ new_message' = TRUE
            /\ tool_llm_thinking' = FALSE
            /\ AI_thinking' = UpdateCombinedThinking(text_llm_thinking, FALSE,
                                                     image_llm_thinking)
            /\ sio_put' = UpdateCombinedEvents(AI_thinking, text_llm_thinking,
                                               FALSE, image_llm_thinking)
            /\ ToolReturn("no_tools_needed")
            /\ UNCHANGED next_cancelled
       ELSE /\ tpc' = "execute"
            /\ NoEvent
            /\ UNCHANGED <<tool_results, new_message, tool_llm_thinking, AI_thinking,
                           next_cancelled, toolLocals, tool_passes_running,
                           tool_outcome, history>>
    /\ UNCHANGED <<human_speaking, AI_speaking, text_llm_thinking, image_llm_thinking,
                   last_message_time, sigReady, recentTwitchMessages,
                   terminate, tool_execution_needed, tool_trigger_request,
                   enabled, pending_tool_future, timeSinceLastMessage, pc,
                   schedLocals, tts_text, now,
                   narrative_due, stale_trigger, turn_outcome, turn_cause>>
    /\ UNCHANGED toolSystem

\* _async_prompt lines 378-409: run the tool calls and publish the results
ToolExecute ==
    /\ tpc = "execute"
    /\ IF tool_calls > 0
       THEN \E outcomes \in [1..tool_calls -> ToolOutcomes] :
              LET r == HandleToolCalls(tool_calls, outcomes)
              IN IF r.raised
                 THEN ToolExceptBranch("execution_error")
                 ELSE /\ tool_results' =
                            IF r.results # <<>> THEN r.results
                            ELSE <<StatusEntry("execution_failed")>>
                      /\ new_message' = TRUE
                      /\ tool_llm_thinking' = FALSE
                      /\ AI_thinking' = UpdateCombinedThinking(text_llm_thinking,
                                             FALSE, image_llm_thinking)
                      /\ sio_put' = UpdateCombinedEvents(AI_thinking, text_llm_thinking,
                                                         FALSE, image_llm_thinking)
                      /\ ToolReturn("executed")
       ELSE /\ tool_results' = <<StatusEntry("no_tool_calls")>>
            /\ new_message' = TRUE
            /\ tool_llm_thinking' = FALSE
            /\ AI_thinking' = UpdateCombinedThinking(text_llm_thinking, FALSE,
                                                     image_llm_thinking)
            /\ sio_put' = UpdateCombinedEvents(AI_thinking, text_llm_thinking,
                                               FALSE, image_llm_thinking)
            /\ ToolReturn("no_tool_calls")
    /\ UNCHANGED <<human_speaking, AI_speaking, text_llm_thinking, image_llm_thinking,
                   last_message_time, sigReady, recentTwitchMessages,
                   terminate, tool_execution_needed, tool_trigger_request,
                   llmState, pending_tool_future, timeSinceLastMessage, pc,
                   schedLocals, tts_text, now,
                   narrative_due, stale_trigger, turn_outcome, turn_cause>>
    /\ UNCHANGED toolSystem

(***************************************************************************)
(* Other threads: the websocket server, the LLM API of the control panel   *)
(* and the speech and chat collaborators.                                  *)
(***************************************************************************)
InPrimary == pc \in {"prompt", "assemble", "clear", "request", "stream"}

\* WebSocketServer.handle_chat_message lines 74-83
ChatMessage(text) ==
    /\ CountRole(history, "user") < MaxUserMessages
    /\ history' = Append(history, [role |-> "user", content |-> text])
    /\ last_message_time' = now
    /\ new_message' = IF ~AI_speaking /\ ~AI_thinking THEN TRUE ELSE new_message
    /\ UNCHANGED <<sigFlags, sigReady, recentTwitchMessages, terminate, sigTool,
                   llmState, pending_tool_future, timeSinceLastMessage, pc,
                   schedLocals, tpc, toolLocals, tts_text, now, ghosts>>
    /\ NoEvent
    /\ UNCHANGED toolSystem

\* AbstractLLMWrapper.API.cancel_next
CancelNext ==
    /\ ~next_cancelled
    /\ next_cancelled' = TRUE
    /\ UNCHANGED <<sigFlags, last_message_time, new_message, sigReady,
                   recentTwitchMessages, history, terminate, sigTool, enabled,
                   pending_tool_future, timeSinceLastMessage, pc, schedLocals,
                   tpc, toolLocals, tts_text, now, ghosts>>
    /\ NoEvent
    /\ UNCHANGED toolSystem

\* AbstractLLMWrapper.API.set_LLM_status
SetLLMStatus(status) ==
    /\ status # enabled
    /\ enabled' = status
    /\ AI_thinking' = IF status THEN FALSE ELSE AI_thinking
    /\ sio_put' = IF status THEN SetAIThinkingEvents(FALSE) ELSE <<>>
    /\ UNCHANGED <<human_speaking, AI_speaking, text_llm_thinking, tool_llm_thinking,
                   image_llm_thinking, last_message_time, new_message, sigReady,
                   recentTwitchMessages, history, terminate, sigTool,
                   next_cancelled, pending_tool_future, timeSinceLastMessage,
                   pc, schedLocals, tpc, toolLocals, tts_text, now, ghosts>>
    /\ UNCHANGED toolSystem

\* the speech-to-text collaborator reports that the human starts or stops talking
HumanSpeaking(value) ==
    /\ stt_ready
    /\ value # human_speaking
    /\ human_speaking' = value
    /\ UNCHANGED <<AI_speaking, AI_thinking, text_llm_thinking, tool_llm_thinking,
                   image_llm_thinking, last_message_time, new_message, sigReady,
                   recentTwitchMessages, history, terminate, sigTool, llmState,
                   pending_tool_future, timeSinceLastMessage, pc, schedLocals,
                   tpc, toolLocals, tts_text, now, ghosts>>
    /\ NoEvent
    /\ UNCHANGED toolSystem

\* the text-to-speech collaborator finishes playing the text it was handed
TTSFinished ==
    /\ AI_speaking
    /\ AI_speaking' = FALSE
    /\ tts_text' = None
    /\ UNCHANGED <<human_speaking, AI_thinking, text_llm_thinking, tool_llm_thinking,
                   image_llm_thinking, last_message_time, new_message, sigReady,
                   recentTwitchMessages, history, terminate, sigTool, llmState,
                   pending_tool_future, timeSinceLastMessage, pc, schedLocals,
                   tpc, toolLocals, now, ghosts>>
    /\ NoEvent
    /\ UNCHANGED toolSystem

\* the speech collaborators finish their initialisation
SubsystemsReady ==
    /\ ~stt_ready \/ ~tts_ready
    /\ \E s \in {"stt", "tts"} :
          /\ stt_ready' = (stt_ready \/ s = "stt")
          /\ tts_ready' = (tts_ready \/ s = "tts")
          /\ <<stt_ready', tts_ready'>> # <<stt_ready, tts_ready>>
    /\ UNCHANGED <<sigFlags, last_message_time, new_message,
                   recentTwitchMessages, history, terminate, sigTool, llmState,
                   pending_tool_future, timeSinceLastMessage, pc, schedLocals,
                   tpc, toolLocals, tts_text, now, ghosts>>
    /\ NoEvent
    /\ UNCHANGED toolSystem

\* the chat client queues a message, or drops its queue once it was read
TwitchQueue(n) ==
    /\ n # recentTwitchMessages
    /\ recentTwitchMessages' = n
    /\ UNCHANGED <<sigFlags, last_message_time, new_message, sigReady,
                   history, terminate, sigTool, llmState,
                   pending_tool_future, timeSinceLastMessage, pc, schedLocals,
                   tpc, toolLocals, tts_text, now, ghosts>>
    /\ NoEvent
    /\ UNCHANGED toolSystem

\* shutdown is requested
Terminate ==
    /\ ~terminate
    /\ terminate' = TRUE
    /\ UNCHANGED <<sigFlags, last_message_time, new_message, sigReady,
                   recentTwitchMessages, history, sigTool, llmState,
                   pending_tool_future, timeSinceLastMessage, pc, schedLocals,
                   tpc, toolLocals, tts_text, now, ghosts>>
    /\ NoEvent
    /\ UNCHANGED toolSystem

\* time passes
ClockAdvance ==
    /\ now + ClockStep <= MaxTime
    /\ now' = now + ClockStep
    /\ UNCHANGED <<sigFlags, last_message_time, new_message, sigReady,
                   recentTwitchMessages, history, terminate, sigTool, llmState,
                   pending_tool_future, timeSinceLastMessage, pc, schedLocals,
                   tpc, toolLocals, tts_text, ghosts>>
    /\ NoEvent
    /\ UNCHANGED toolSystem

(***************************************************************************)
(* The system while it runs: the scheduler thread, the tool thread and the *)
(* collaborators.  Shutdown is followed by ShutdownSpec below.             *)
(***************************************************************************)
Next ==
    \/ Tick
    \/ Decide
    \/ PromptBegin
    \/ GeneratePromptRead
    \/ GeneratePromptCheck
    \/ RequestOk
    \/ RequestFails
    \/ \E chunk \in Chunks : StreamEvent(chunk)
    \/ PrimaryFinish
    \/ ToolBegin
    \/ ToolRequestOk
    \/ ToolRequestFails
    \/ ToolPayloadFails
    \/ \E ev \in {"call", "NO_TOOLS_NEEDED"} : ToolStreamEvent(ev)
    \/ ToolStreamEnd
    \/ ToolExecute
    \/ \E text \in UserTexts : ChatMessage(text)
    \/ CancelNext
    \/ \E status \in BOOLEAN : SetLLMStatus(status)
    \/ \E value \in BOOLEAN : HumanSpeaking(value)
    \/ TTSFinished
    \/ SubsystemsReady
    \/ \E n \in 0..1 : TwitchQueue(n)
    \/ ClockAdvance

Spec == Init /\ [][Next]_vars

(***************************************************************************)
(* Shutdown: the same threads while terminate may be set, with the human   *)
(* silent, the LLM status left alone and no cancel request.                *)
(***************************************************************************)
ShutdownNext ==
    \/ Tick
    \/ LoopExit
    \/ Decide
    \/ PromptBegin
    \/ GeneratePromptRead
    \/ GeneratePromptCheck
    \/ RequestOk
    \/ RequestFails
    \/ \E chunk \in Chunks : StreamEvent(chunk)
    \/ PrimaryFinish
    \/ ToolBegin
    \/ ToolRequestOk
    \/ ToolRequestFails
    \/ ToolPayloadFails
    \/ \E ev \in {"call", "NO_TOOLS_NEEDED"} : ToolStreamEvent(ev)
    \/ ToolStreamEnd
    \/ ToolExecute
    \/ \E text \in UserTexts : ChatMessage(text)
    \/ TTSFinished
    \/ SubsystemsReady
    \/ \E n \in 0..1 : TwitchQueue(n)
    \/ Terminate
    \/ ClockAdvance

ShutdownSpec == Init /\ [][ShutdownNext]_vars

(***************************************************************************)
(* The system left to itself: nobody speaks, cancels or switches the       *)
(* model off, the speech subsystems come up, and every thread that can     *)
(* take a step eventually takes one.                                       *)
(***************************************************************************)
\* the steps of the scheduler thread, prompt_loop and the prompt() it calls,
\* up to the point where prompt() waits for the stream
SchedulerStep ==
    \/ Tick
    \/ Decide
    \/ PromptBegin
    \/ GeneratePromptRead
    \/ GeneratePromptCheck
    \/ RequestOk
    \/ RequestFails

\* the steps of the tool thread: _async_prompt
ToolThreadStep ==
    \/ ToolBegin
    \/ ToolRequestOk
    \/ ToolRequestFails
    \/ ToolPayloadFails
    \/ ToolStreamEnd
    \/ ToolExecute

LiveNext ==
    \/ SchedulerStep
    \/ \E chunk \in Chunks : StreamEvent(chunk)
    \/ PrimaryFinish
    \/ ToolThreadStep
    \/ \E ev \in {"call", "NO_TOOLS_NEEDED"} : ToolStreamEvent(ev)
    \/ \E text \in UserTexts : ChatMessage(text)
    \/ TTSFinished
    \/ SubsystemsReady
    \/ ClockAdvance

\* the completion service ends every stream it has begun
StreamEnds == []<>(pc # "stream")

LiveSpec ==
    /\ Init
    /\ [][LiveNext]_vars
    /\ WF_vars(SchedulerStep)
    /\ StreamEnds
    /\ WF_vars(ToolThreadStep)
    /\ WF_vars(TTSFinished)
    /\ WF_vars(SubsystemsReady)

(***************************************************************************)
(* The primary generation path on its own: one call of prompt() on a       *)
(* history, a tool_results list and completion chunks drawn from small     *)
(* sets, with no other thread running.                                     *)
(***************************************************************************)
PathMessages == { [role |-> "user", content |-> <<"LONG">>],
                  [role |-> "assistant", content |-> <<"hi">>] }

RECURSIVE SeqsUpTo(_, _)
SeqsUpTo(S, n) ==
    IF n = 0 THEN { <<>> }
    ELSE SeqsUpTo(S, n - 1)
         \cup { Append(q, m) : q \in SeqsUpTo(S, n - 1), m \in S }

PathHistories == SeqsUpTo(PathMessages, MaxPathHistory)

\* nothing pending, a result, a failure status, a result as long as a long
\* chat message
PathToolResults == { <<>>,
                     <<RawEntry(1, 1, "success")>>,
                     <<StatusEntry("error")>>,
                     <<RawEntry(3, 3, "success")>> }

\* completions with and without the blacklisted word
PathChunks == { <<"hi">>,
                <<"banana">>,
                <<"Banana", SP, "hi">>,
                <<"hi", SP, "banana", ".">>,
                <<"bananas">>,
                <<"banana", SP, OPEN, "req", CLOSE>> }

\* prompt_loop line 90: the scheduler is about to call prompt()
PathInit ==
    /\ ToolSystemInit
    /\ human_speaking = FALSE
    /\ AI_speaking = FALSE
    /\ AI_thinking = FALSE
    /\ text_llm_thinking = FALSE
    /\ tool_llm_thinking = FALSE
    /\ image_llm_thinking = FALSE
    /\ last_message_time = 1
    /\ new_message = TRUE
    /\ tts_ready = TRUE
    /\ stt_ready = TRUE
    /\ recentTwitchMessages = 0
    /\ history \in PathHistories
    /\ terminate = FALSE
    /\ tool_execution_needed = FALSE
    /\ tool_trigger_request = <<>>
    /\ tool_results \in PathToolResults
    /\ enabled \in BOOLEAN
    /\ next_cancelled \in BOOLEAN
    /\ pending_tool_future = None
    /\ timeSinceLastMessage = 0
    /\ pc = "prompt"
    /\ wrapper = chooseLLM
    /\ messages = <<>>
    /\ tool_injections = <<>>
    /\ full_prompt = <<>>
    /\ AI_message = <<>>
    /\ streamed = 0
    /\ tpc = "idle"
    /\ tool_request = <<>>
    /\ tool_calls = 0
    /\ tool_message = <<>>
    /\ tool_streamed = 0
    /\ tts_text = None
    /\ now = 1
    /\ tool_passes_running = 0
    /\ narrative_due = <<>>
    /\ stale_trigger = FALSE
    /\ turn_outcome = None
    /\ tool_outcome = None
    /\ turn_cause = None
    /\ sio_put = <<>>

PathNext ==
    \/ PromptBegin
    \/ GeneratePromptRead
    \/ GeneratePromptCheck
    \/ RequestOk
    \/ RequestFails
    \/ \E chunk \in PathChunks : StreamEvent(chunk)
    \/ PrimaryFinish

PathSpec == PathInit /\ [][PathNext]_vars

(***************************************************************************)
(* The end of a tool pass on its own: the stream has delivered a batch of  *)
(* tool calls and _async_prompt hands it to handle_tool_calls.             *)
(***************************************************************************)
BatchInit ==
    /\ ToolSystemInit
    /\ human_speaking = FALSE
    /\ AI_speaking = FALSE
    /\ AI_thinking = TRUE
    /\ text_llm_thinking = FALSE
    /\ tool_llm_thinking = TRUE
    /\ image_llm_thinking = FALSE
    /\ last_message_time = 1
    /\ new_message = FALSE
    /\ tts_ready = TRUE
    /\ stt_ready = TRUE
    /\ recentTwitchMessages = 0
    /\ history = <<>>
    /\ terminate = FALSE
    /\ tool_execution_needed = FALSE
    /\ tool_trigger_request = <<"req">>
    /\ tool_results = <<>>
    /\ enabled = TRUE
    /\ next_cancelled = FALSE
    /\ pending_tool_future = "future"
    /\ timeSinceLastMessage = 0
    /\ pc = "loop"
    /\ wrapper = None
    /\ messages = <<>>
    /\ tool_injections = <<>>
    /\ full_prompt = <<>>
    /\ AI_message = <<>>
    /\ streamed = 0
    /\ tpc = "execute"
    /\ tool_request = <<"req">>
    /\ tool_calls \in 0..MaxBatch
    /\ tool_message = <<>>
    /\ tool_streamed = 0
    /\ tts_text = None
    /\ now = 1
    /\ tool_passes_running = 1
    /\ narrative_due = <<>>
    /\ stale_trigger = FALSE
    /\ turn_outcome = None
    /\ tool_outcome = None
    /\ turn_cause = None
    /\ sio_put = <<>>

BatchNext == ToolExecute

BatchSpec == BatchInit /\ [][BatchNext]_vars

(***************************************************************************)
(* The tool-invocation pass on its own: one run of _async_prompt on the    *)
(* executor thread, started by the scheduler after a trigger, while the    *)
(* control panel may cancel.                                               *)
(***************************************************************************)
\* prompt_loop lines 77-81: the pass has just been submitted
ToolPassInit ==
    /\ ToolSystemInit
    /\ human_speaking = FALSE
    /\ AI_speaking \in BOOLEAN
    /\ AI_thinking = FALSE
    /\ text_llm_thinking = FALSE
    /\ tool_llm_thinking = FALSE
    /\ image_llm_thinking = FALSE
    /\ last_message_time = 1
    /\ new_message = FALSE
    /\ tts_ready = TRUE
    /\ stt_ready = TRUE
    /\ recentTwitchMessages = 0
    /\ history \in PathHistories
    /\ terminate = FALSE
    /\ tool_execution_needed = FALSE
    /\ tool_trigger_request = <<"req">>
    /\ tool_results = <<>>
    /\ enabled \in BOOLEAN
    /\ next_cancelled \in BOOLEAN
    /\ pending_tool_future = "future"
    /\ timeSinceLastMessage = 0
    /\ pc = "decide"
    /\ wrapper = None
    /\ messages = <<>>
    /\ tool_injections = <<>>
    /\ full_prompt = <<>>
    /\ AI_message = <<>>
    /\ streamed = 0
    /\ tpc = "start"
    /\ tool_request = <<>>
    /\ tool_calls = 0
    /\ tool_message = <<>>
    /\ tool_streamed = 0
    /\ tts_text = IF AI_speaking THEN <<"hi">> ELSE None
    /\ now = 1
    /\ tool_passes_running = 1
    /\ narrative_due = <<>>
    /\ stale_trigger = FALSE
    /\ turn_outcome = None
    /\ tool_outcome = None
    /\ turn_cause = None
    /\ sio_put = <<>>

ToolPassNext ==
    \/ ToolBegin
    \/ ToolRequestOk
    \/ ToolRequestFails
    \/ ToolPayloadFails
    \/ \E ev \in {"call", "NO_TOOLS_NEEDED"} : ToolStreamEvent(ev)
    \/ ToolStreamEnd
    \/ ToolExecute
    \/ CancelNext

ToolPassSpec == ToolPassInit /\ [][ToolPassNext]_vars

(***************************************************************************)
(* The tool registry (src/tools/registry/tool_registry.py), driven by      *)
(* register_tool and unregister_tool calls on its own.                     *)
(***************************************************************************)
\* a tool object: its identity and the fields of its ToolMetadata that the
\* registry and the selection read
Tool(id, name, type, status) ==
    [id |-> id, name |-> name, type |-> type, status |-> status]

\* the tools NeuroDynamicSystem registers
MathTool == Tool(1, "calculate_math", "dynamic", "available")
WeatherTool == Tool(2, "get_weather", "dynamic", "available")
WebSearchTool == Tool(3, "search_web", "dynamic", "available")
YouTubeTool == Tool(4, "play_youtube_video", "dynamic", "available")
\* another tool object that carries the name of the first
OtherMathTool == Tool(5, "calculate_math", "static", "available")
\* an object without metadata: reading tool.metadata.name raises
BrokenTool == Tool(6, None, None, None)
\* a tool whose name is a list: it cannot be the key of a dict
UnhashableNameTool == Tool(7, "[unhashable]", "dynamic", "available")
Hashable(name) == name # "[unhashable]"
\* no tool
NoTool == Tool(0, None, None, None)

\* dict[key] = value
Put(map, key, value) ==
    [k \in DOMAIN map \cup {key} |-> IF k = key THEN value ELSE map[k]]

\* del dict[key]
Del(map, key) ==
    IF DOMAIN map \ {key} = {} THEN <<>>
    ELSE [k \in DOMAIN map \ {key} |-> map[k]]

\* name in list
InList(list, name) == \E i \in 1..Len(list) : list[i] = name

\* a removal that drops the head of the list whatever it is
ListRemoveHead(list, name) == Tail(list)

\* list.remove(name): drop the first occurrence
ListRemove(list, name) ==
    LET i == CHOOSE k \in 1..Len(list) :
                 list[k] = name /\ \A j \in 1..(k - 1) : list[j] # name
    IN SubSeq(list, 1, i - 1) \o SubSeq(list, i + 1, Len(list))

\* a registration that appends the name without looking at the list
GroupAppendAlways(list, name) == Append(list, name)

\* register_tool lines 32-33: the group list after the registration
GroupAppend(list, name) == IF InList(list, name) THEN list ELSE Append(list, name)

\* register_tool lines 18-41 on the mappings T and G: the mappings afterwards,
\* the value returned and whether the call raised instead of returning
register_tool(T, G, tool, group) ==
    IF tool.name = None
    THEN \* line 21 raises, and so does the log message of line 40
         [tools |-> T, tool_groups |-> G, ret |-> FALSE, raised |-> TRUE]
    ELSE IF ~Hashable(tool.name)
    THEN \* line 24 raises, lines 39-41 return False
         [tools |-> T, tool_groups |-> G, ret |-> FALSE, raised |-> FALSE]
    ELSE [tools |-> Put(T, tool.name, tool),
          tool_groups |->
              Put(G, group,
                  GroupAppend(IF group \in DOMAIN G THEN G[group] ELSE <<>>,
                              tool.name)),
          ret |-> TRUE, raised |-> FALSE]

\* an unregistration that forgets the group lists
unregister_from_tools_only(T, G, name) ==
    IF name \notin DOMAIN T
    THEN [tools |-> T, tool_groups |-> G, ret |-> FALSE, raised |-> FALSE]
    ELSE [tools |-> Del(T, name), tool_groups |-> G, ret |-> TRUE, raised |-> FALSE]

\* unregister_tool lines 43-63
unregister_tool(T, G, name) ==
    IF name \notin DOMAIN T
    THEN [tools |-> T, tool_groups |-> G, ret |-> FALSE, raised |-> FALSE]
    ELSE [tools |-> Del(T, name),
          tool_groups |->
              [g \in DOMAIN G |-> IF InList(G[g], name)
                                  THEN ListRemove(G[g], name) ELSE G[g]],
          ret |-> TRUE, raised |-> FALSE]

\* the groups of G that list name
GroupsListing(G, name) == {g \in DOMAIN G : InList(G[g], name)}

\* the record of a registry call: the operation, its arguments, the value
\* returned, whether it raised, whether the call repeats the one before it,
\* and the number of groups that listed the name when the call was made
RegistryCall(op, tool, name, group, r) ==
    [op |-> op, tool |-> tool, name |-> name, group |-> group, ret |-> r.ret,
     raised |-> r.raised,
     again |-> /\ reg_return.op = op /\ reg_return.tool = tool
               /\ reg_return.name = name /\ reg_return.group = group
               /\ reg_return.ret,
     listed |-> Cardinality(GroupsListing(tool_groups, name))]

\* ToolRegistry.register_tool(tool, group)
RegisterTool(tool, group) ==
    /\ LET r == register_tool(tools, tool_groups, tool, group)
       IN /\ tools' = r.tools
          /\ tool_groups' = r.tool_groups
          /\ reg_return' = RegistryCall("register_tool", tool, tool.name, group, r)
    /\ UNCHANGED <<orchestration, metadata, performance_history,
                   progress_callback, exec_return, selection, failure, in_flight>>

\* ToolRegistry.unregister_tool(tool_name)
UnregisterTool(name) ==
    /\ LET r == unregister_tool(tools, tool_groups, name)
       IN /\ tools' = r.tools
          /\ tool_groups' = r.tool_groups
          /\ reg_return' = RegistryCall("unregister_tool", NoTool, name, None, r)
    /\ UNCHANGED <<orchestration, metadata, performance_history,
                   progress_callback, exec_return, selection, failure, in_flight>>

\* the tools, groups and names the calls are made with
RegistryTools == {MathTool, WeatherTool, OtherMathTool, BrokenTool,
                  UnhashableNameTool}
RegistryGroups == {"computation", "information"}
RegistryNames == {"calculate_math", "get_weather", "search_web"}

RegistryNext ==
    \/ \E tool \in RegistryTools, group \in RegistryGroups : RegisterTool(tool, group)
    \/ \E name \in RegistryNames : UnregisterTool(name)

RegistrySpec == Init /\ [][RegistryNext]_vars

(***************************************************************************)
(* One tool under BaseTool.execute_with_monitoring                         *)
(* (src/tools/base/tool_base.py), called again and again on its own.       *)
(***************************************************************************)
\* the execution times a call may measure
FastTime == 1
SlowTime == 3

RECURSIVE SumSeq(_)
SumSeq(q) == IF q = <<>> THEN 0 ELSE Head(q) + SumSeq(Tail(q))

\* number of entries of q that equal x
Count(q, x) == Cardinality({i \in 1..Len(q) : q[i] = x})

\* line 110: sum(history) / len(history), kept as the quotient sum : n
AverageOf(hist) == [sum |-> SumSeq(hist), n |-> Len(hist)]

\* lines 113-114: keep the most recent samples
KeepRecent(hist) ==
    IF Len(hist) > PERFORMANCE_WINDOW
    THEN SubSeq(hist, Len(hist) - PERFORMANCE_WINDOW + 1, Len(hist))
    ELSE hist

\* execute_with_monitoring lines 71-148.  execute says whether the tool's
\* execute returns or raises; onStart, onDone and onError say the same of the
\* progress callback at lines 99, 123 and 145; time is the execution time
\* line 105 measures
ExecuteWithMonitoring(execute, onStart, onDone, onError, time) ==
    LET raisedStart == progress_callback /\ onStart = "raises"
        raisedExecute == ~raisedStart /\ execute = "raises"
        measured == ~raisedStart /\ ~raisedExecute
        appended == Append(performance_history, time)
        raisedDone == measured /\ progress_callback /\ onDone = "raises"
        handled == raisedStart \/ raisedExecute \/ raisedDone
        propagated == handled /\ progress_callback /\ onError = "raises"
    IN /\ metadata.usage_count < MaxExecutions
       /\ handled => metadata.error_count < MaxFailedExecutions
       /\ (measured /\ time = SlowTime) =>
              Count(performance_history, SlowTime) < MaxSlowExecutions
       /\ metadata' =
             [status |-> IF handled THEN "error" ELSE "available",
              usage_count |-> metadata.usage_count + 1,
              error_count |-> IF handled THEN metadata.error_count + 1
                              ELSE metadata.error_count,
              average_response_time |->
                  IF measured THEN AverageOf(appended)
                  ELSE metadata.average_response_time,
              is_running |-> FALSE]
       /\ performance_history' =
             IF measured THEN KeepRecent(appended) ELSE performance_history
       /\ exec_return' =
             [kind |-> IF propagated THEN "raised"
                       ELSE IF handled THEN "error" ELSE "result",
              raised_in |-> IF raisedExecute THEN "execute"
                            ELSE IF handled THEN "callback" ELSE None,
              call |-> metadata.usage_count + 1]
       /\ UNCHANGED <<orchestration, tools, tool_groups, reg_return,
                      progress_callback, selection, failure, in_flight>>

\* BaseTool.set_progress_callback
SetProgressCallback(value) ==
    /\ value # progress_callback
    /\ progress_callback' = value
    /\ UNCHANGED <<orchestration, tools, tool_groups, reg_return, metadata,
                   performance_history, exec_return, selection, failure, in_flight>>

Outcomes == {"returns", "raises"}

MonitorNext ==
    \/ \E execute, onStart, onDone, onError \in Outcomes :
          \E time \in {FastTime, SlowTime} :
             ExecuteWithMonitoring(execute, onStart, onDone, onError, time)
    \/ \E value \in BOOLEAN : SetProgressCallback(value)

MonitorSpec == Init /\ [][MonitorNext]_vars

(***************************************************************************)
(* The same tool with calls of execute_with_monitoring that overlap: each  *)
(* call runs up to its first await, is resumed later, and reset_metrics    *)
(* may run in between.                                                     *)
(***************************************************************************)
\* execute_with_monitoring lines 73-99: the call counts its use and is
\* suspended at the await of line 99 or line 102
BeginExecution ==
    /\ in_flight < MaxInFlight
    /\ metadata.usage_count < MaxOverlapUses
    /\ metadata' = [metadata EXCEPT !.usage_count = @ + 1,
                                    !.status = "executing",
                                    !.is_running = TRUE]
    /\ in_flight' = in_flight + 1
    /\ UNCHANGED <<orchestration, tools, tool_groups, reg_return,
                   performance_history, progress_callback, exec_return,
                   selection, failure>>

\* execute_with_monitoring lines 102-148: the awaited execute returns or
\* raises and the call runs to its return
EndExecution(execute, time) ==
    /\ in_flight > 0
    /\ in_flight' = in_flight - 1
    /\ IF execute = "returns"
       THEN /\ metadata' =
                  [metadata EXCEPT
                      !.average_response_time =
                          AverageOf(Append(performance_history, time)),
                      !.is_running = FALSE,
                      !.status = "available"]
            /\ performance_history' =
                  KeepRecent(Append(performance_history, time))
       ELSE /\ metadata' = [metadata EXCEPT !.error_count = @ + 1,
                                            !.status = "error",
                                            !.is_running = FALSE]
            /\ UNCHANGED performance_history
    /\ exec_return' = [kind |-> IF execute = "returns" THEN "result" ELSE "error",
                       raised_in |-> IF execute = "returns" THEN None
                                     ELSE "execute",
                       call |-> metadata.usage_count]
    /\ UNCHANGED <<orchestration, tools, tool_groups, reg_return,
                   progress_callback, selection, failure>>

\* BaseTool.reset_metrics lines 180-186, as ToolRegistry.reset_all_metrics
\* calls it for every tool
reset_metrics ==
    /\ metadata' = [metadata EXCEPT
                       !.usage_count = 0,
                       !.error_count = 0,
                       !.average_response_time = [sum |-> 0, n |-> 1]]
    /\ performance_history' = <<>>
    /\ UNCHANGED <<orchestration, tools, tool_groups, reg_return,
                   progress_callback, exec_return, selection, failure,
                   in_flight>>

OverlapNext ==
    \/ BeginExecution
    \/ \E execute \in Outcomes, time \in {FastTime, SlowTime} :
          EndExecution(execute, time)
    \/ reset_metrics

OverlapSpec == Init /\ [][OverlapNext]_vars

(***************************************************************************)
(* Tool selection (src/tools/dynamic_tool_manager.py): one call of         *)
(* select_relevant_tools on a registry, a context and a state of the       *)
(* vector index drawn from small sets.  A text is a sequence of            *)
(* characters.                                                             *)
(***************************************************************************)
\* DynamicToolManager.tool_categories
tool_categories == {
    [category |-> "computation",
     keywords |-> {
          <<"m", "a", "t", "h">>,
          <<"c", "a", "l", "c", "u", "l", "a", "t", "e">>,
          <<"c", "o", "m", "p", "u", "t", "a", "t", "i", "o", "n">>,
          <<"a", "r", "i", "t", "h", "m", "e", "t", "i", "c">>,
          <<"a", "d", "d">>,
          <<"s", "u", "b", "t", "r", "a", "c", "t">>,
          <<"m", "u", "l", "t", "i", "p", "l", "y">>,
          <<"d", "i", "v", "i", "d", "e">>,
          <<"e", "q", "u", "a", "t", "i", "o", "n">>,
          <<"s", "o", "l", "v", "e">> },
     tools |-> {"calculate_math"}],
    [category |-> "information",
     keywords |-> {
          <<"w", "e", "a", "t", "h", "e", "r">>,
          <<"t", "e", "m", "p", "e", "r", "a", "t", "u", "r", "e">>,
          <<"c", "l", "i", "m", "a", "t", "e">>,
          <<"f", "o", "r", "e", "c", "a", "s", "t">>,
          <<"r", "a", "i", "n">>,
          <<"s", "n", "o", "w">>,
          <<"s", "u", "n", "n", "y">>,
          <<"c", "l", "o", "u", "d", "y">>,
          <<"w", "i", "n", "d">> },
     tools |-> {"get_weather"}],
    [category |-> "search",
     keywords |-> {
          <<"s", "e", "a", "r", "c", "h">>,
          <<"f", "i", "n", "d">>,
          <<"l", "o", "o", "k", " ", "u", "p">>,
          <<"i", "n", "f", "o", "r", "m", "a", "t", "i", "o", "n">>,
          <<"n", "e", "w", "s">>,
          <<"w", "e", "b">>,
          <<"q", "u", "e", "r", "y">>,
          <<"d", "i", "s", "c", "o", "v", "e", "r">> },
     tools |-> {"web_search"}],
    [category |-> "entertainment",
     keywords |-> {
          <<"y", "o", "u", "t", "u", "b", "e">>,
          <<"v", "i", "d", "e", "o">>,
          <<"p", "l", "a", "y">>,
          <<"w", "a", "t", "c", "h">> },
     tools |-> {"play_youtube_video"}] }


\* the user inputs: no keyword; a keyword in capitals; a keyword inside a
\* longer word; keywords of two categories; a keyword of the search category
UserInputs == { <<"h", "i">>,
                <<"W", "e", "a", "t", "h", "e", "r">>,
                <<"a", "d", "d", "r", "e", "s", "s">>,
                <<"p", "l", "a", "y", " ", "m", "a", "t", "h">>,
                <<"w", "e", "b">> }

\* str.lower() on the characters the inputs use
LowerChar(ch) ==
    IF ch = "W" THEN "w" ELSE IF ch = "U" THEN "u" ELSE IF ch = "C" THEN "c"
    ELSE IF ch = "I" THEN "i" ELSE IF ch = "S" THEN "s" ELSE ch
LowerText(text) == [i \in 1..Len(text) |-> LowerChar(text[i])]

\* keyword in user_input_lower: the keyword is a substring of the text
OccursIn(keyword, text) ==
    \E i \in 1..(Len(text) - Len(keyword) + 1) :
        SubSeq(text, i, i + Len(keyword) - 1) = keyword

\* the categories one of whose keywords occurs in the input
MatchedCategories(user_input) ==
    {c \in tool_categories :
        \E keyword \in c.keywords : OccursIn(keyword, LowerText(user_input))}

\* the elements of a sequence
Range(q) == {q[i] : i \in 1..Len(q)}

\* list(a_set): the tools of S in the iteration order of the set, which the
\* hashes of the tool objects fix for the run of the program
RECURSIVE ListOf(_, _)
ListOf(S, order) ==
    IF S = {} THEN <<>>
    ELSE LET first == CHOOSE t \in S :
                          \A u \in S : IF order = "ascending" THEN t.id <= u.id
                                       ELSE t.id >= u.id
         IN <<first>> \o ListOf(S \ {first}, order)

\* lines 136 and 212: tool and tool.metadata.status == ToolStatus.AVAILABLE
Usable(T, name) == name \in DOMAIN T /\ T[name].status = "available"

\* _get_default_tools lines 205-215
get_default_tools(T) ==
    IF Usable(T, "web_search") THEN <<T["web_search"]>> ELSE <<>>

\* _keyword_selection lines 125-143
keyword_selection(T, user_input, order) ==
    LET matched_tools ==
            {T[name] : name \in {n \in UNION {c.tools : c \in MatchedCategories(user_input)} :
                                    Usable(T, n)}}
    IN ListOf(IF matched_tools = {} THEN Range(get_default_tools(T))
              ELSE matched_tools, order)

\* _semantic_selection lines 159-165: the usable registered tools the hits name
RECURSIVE ToolsOfHits(_, _)
ToolsOfHits(T, hits) ==
    IF hits = <<>> THEN <<>>
    ELSE (IF Usable(T, Head(hits)) THEN <<T[Head(hits)]>> ELSE <<>>)
         \o ToolsOfHits(T, Tail(hits))

\* a semantic selection that gives up when the index is unavailable
semantic_selection_no_fallback(T, user_input, collection, order) ==
    IF collection.state # "ok" THEN <<>> ELSE ToolsOfHits(T, collection.hits)

\* _semantic_selection lines 145-171
semantic_selection(T, user_input, collection, order) ==
    IF collection.state = "none"
    THEN keyword_selection(T, user_input, order)
    ELSE IF collection.state = "raises"
    THEN keyword_selection(T, user_input, order)
    ELSE ToolsOfHits(T, collection.hits)

\* _hybrid_selection lines 188-190
RECURSIVE ExtendWith(_, _, _, _)
ExtendWith(combined_tools, rest, keyword_tools, max_tools) ==
    IF rest = <<>> THEN combined_tools
    ELSE ExtendWith(IF Head(rest) \notin keyword_tools
                       /\ Len(combined_tools) < max_tools
                    THEN Append(combined_tools, Head(rest))
                    ELSE combined_tools,
                    Tail(rest), keyword_tools, max_tools)

\* a hybrid selection that lists the semantic matches first
hybrid_semantic_first(T, user_input, max_tools, collection, order) ==
    LET keyword_tools == Range(keyword_selection(T, user_input, order))
        semantic_tools == Range(semantic_selection(T, user_input, collection, order))
    IN ExtendWith(ListOf(semantic_tools, order), ListOf(keyword_tools, order),
                  semantic_tools, max_tools)

\* _hybrid_selection lines 173-192
hybrid_selection(T, user_input, max_tools, collection, order) ==
    LET keyword_tools == Range(keyword_selection(T, user_input, order))
        semantic_tools == Range(semantic_selection(T, user_input, collection, order))
    IN ExtendWith(ListOf(keyword_tools, order), ListOf(semantic_tools, order),
                  keyword_tools, max_tools)

IsStatic(t) == t.type = "static"
IsDynamic(t) == t.type = "dynamic"

\* _prioritize_static_tools lines 199-203
prioritize_static_tools(list) == SelectSeq(list, IsStatic) \o SelectSeq(list, IsDynamic)

\* selected_tools[:max_tools]
Truncate(list, max_tools) ==
    SubSeq(list, 1, IF Len(list) < max_tools THEN Len(list) ELSE max_tools)

\* ToolRegistry.get_tools_by_type lines 69-71: the tools of the type in the
\* order of the dict, which is the order of registration (the ids)
get_tools_by_type(T, type) ==
    ListOf({T[name] : name \in {n \in DOMAIN T : T[n].type = type}}, "ascending")

\* _get_fallback_tools lines 217-221
get_fallback_tools(T) == Truncate(get_tools_by_type(T, "static"), FALLBACK_MAX_TOOLS)

\* line 93: context.strategy.value raises when the context carries no
\* SelectionStrategy
SelectionFails(ctx) == ctx.strategy = None

\* select_relevant_tools lines 86-123: the list the strategy picked, the
\* list returned, and whether the except branch returned it
select_relevant_tools(T, ctx, collection, order) ==
    LET selected_tools ==
            IF ctx.strategy = "keyword_only"
            THEN keyword_selection(T, ctx.user_input, order)
            ELSE IF ctx.strategy = "semantic_only"
            THEN semantic_selection(T, ctx.user_input, collection, order)
            ELSE \* HYBRID, and SMART through _smart_selection
                 hybrid_selection(T, ctx.user_input, ctx.max_tools, collection, order)
    IN IF SelectionFails(ctx)
       THEN [picked |-> <<>>, result |-> get_fallback_tools(T), failed |-> TRUE]
       ELSE [picked |-> selected_tools,
             result |-> Truncate(IF ctx.prefer_static
                                 THEN prioritize_static_tools(selected_tools)
                                 ELSE selected_tools, ctx.max_tools),
             failed |-> FALSE]

\* DynamicToolManager.select_relevant_tools(context)
SelectRelevantTools ==
    /\ ~selection.done
    /\ LET r == select_relevant_tools(tools, selection.context,
                                      selection.collection, selection.order)
       IN selection' = [selection EXCEPT !.done = TRUE, !.picked = r.picked,
                                         !.result = r.result,
                                         !.failed = r.failed]
    /\ UNCHANGED <<orchestration, tools, tool_groups, reg_return, metadata,
                   performance_history, progress_callback, exec_return, failure,
                   in_flight>>

\* register_tool applied to a list of <<tool, group>> pairs
RECURSIVE RegisterAll(_, _, _)
RegisterAll(T, G, pairs) ==
    IF pairs = <<>> THEN [tools |-> T, tool_groups |-> G]
    ELSE LET r == register_tool(T, G, Head(pairs)[1], Head(pairs)[2])
         IN RegisterAll(r.tools, r.tool_groups, Tail(pairs))

\* NeuroDynamicSystem._register_default_tools lines 99-121
DefaultTools == << <<MathTool, "computation">>, <<WeatherTool, "information">>,
                   <<WebSearchTool, "information">>, <<YouTubeTool, "entertainment">> >>
DefaultRegistry == RegisterAll(<<>>, <<>>, DefaultTools)

\* further tools a registry may hold: one under the name the search category
\* lists, a static one, and a weather tool that is in the ERROR state
NamedWebSearchTool == Tool(8, "web_search", "dynamic", "available")
MemoryTool == Tool(9, "search_memory", "static", "available")
FailedWeatherTool == Tool(10, "get_weather", "dynamic", "error")

ExtendedTools == DefaultTools \o << <<NamedWebSearchTool, "information">>,
                                    <<MemoryTool, "memory">> >>

\* more always-available tools than the fallback returns
ProfileTool == Tool(11, "recall_profile", "static", "available")
NotesTool == Tool(12, "recall_notes", "static", "available")
ClockTool == Tool(13, "tell_time", "static", "available")
StaticTools == ExtendedTools \o << <<ProfileTool, "memory">>, <<NotesTool, "memory">>,
                                   <<ClockTool, "memory">> >>

\* the registries a selection is made on
SelectRegistries ==
    { DefaultRegistry,
      RegisterAll(<<>>, <<>>, ExtendedTools),
      RegisterAll(<<>>, <<>>, ExtendedTools \o << <<OtherMathTool, "computation">> >>),
      RegisterAll(<<>>, <<>>, ExtendedTools \o << <<FailedWeatherTool, "information">> >>),
      RegisterAll(<<>>, <<>>, StaticTools),
      RegisterAll(<<>>, <<>>, <<>>) }

\* the tool names the vector index may answer with, one of them unregistered
HitNames == {"get_weather", "search_memory", "forgotten_tool"}

\* the states of the vector index: no collection, a query that raises, or
\* the tool names of the documents the query returns
Collections ==
    { [state |-> "none", hits |-> <<>>], [state |-> "raises", hits |-> <<>>] }
    \cup { [state |-> "ok", hits |-> h] : h \in SeqsUpTo(HitNames, MaxHits) }

Strategies == {"keyword_only", "semantic_only", "hybrid", "smart"}

\* ToolSelectionContext lines 27-36; 6 is the default of max_tools
Contexts ==
    [user_input : UserInputs, max_tools : {1, 2, DEFAULT_MAX_TOOLS},
     strategy : Strategies \cup {None}, prefer_static : BOOLEAN]

\* a DynamicToolManager over a populated registry, about to select
SelectInit ==
    /\ SignalsInit
    /\ \E r \in SelectRegistries : tools = r.tools /\ tool_groups = r.tool_groups
    /\ reg_return = NoRegistryCall
    /\ metadata = FreshMetadata
    /\ performance_history = <<>>
    /\ progress_callback = FALSE
    /\ exec_return = NoExecution
    /\ failure = None
    /\ in_flight = 0
    /\ selection \in [context : Contexts, collection : Collections,
                      order : {"ascending", "descending"}, done : {FALSE},
                      picked : {<<>>}, result : {<<>>}, failed : {FALSE}]
    \* line 155: the query asks for max_tools * 2 documents
    /\ Len(selection.collection.hits) <= 2 * selection.context.max_tools

SelectNext == SelectRelevantTools

SelectSpec == SelectInit /\ [][SelectNext]_vars

(***************************************************************************)
(* The failure classifier (src/tools/failure_handler.py): one call of      *)
(* handle_failure on a tool name and an error_info drawn from small sets.  *)
(***************************************************************************)
\* FailureType
FailureTypes == {"execution_error", "network_error", "invalid_parameters",
                 "service_unavailable", "timeout", "unknown"}

\* the texts of error_info["exception"]
ErrorMessages == {
    \* no exception text
    <<>>,
    \* the placeholder of a missing exception
    <<"U", "n", "k", "n", "o", "w", "n", " ", "e", "r", "r", "o", "r">>,
    \* no pattern
    <<"b", "o", "o", "m">>,
    \* network and timeout
    <<"C", "o", "n", "n", "e", "c", "t", "i", "o", "n", " ", "t", "i", "m", "e", "d", " ", "o", "u", "t">>,
    \* timeout and invalid-parameters
    <<"t", "i", "m", "e", "o", "u", "t", ":", " ", "i", "n", "v", "a", "l", "i", "d", " ", "p", "a", "r", "a", "m", "e", "t", "e", "r">>,
    \* invalid-parameters and service-unavailable
    <<"I", "n", "v", "a", "l", "i", "d", " ", "s", "e", "r", "v", "i", "c", "e">>,
    \* service-unavailable
    <<"S", "e", "r", "v", "i", "c", "e", " ", "u", "n", "a", "v", "a", "i", "l", "a", "b", "l", "e">>,
    \* network and service-unavailable
    <<"n", "e", "t", "w", "o", "r", "k", " ", "u", "n", "a", "v", "a", "i", "l", "a", "b", "l", "e">> }

NETWORK == <<"n", "e", "t", "w", "o", "r", "k">>
CONNECTION == <<"c", "o", "n", "n", "e", "c", "t", "i", "o", "n">>
TIMEOUT == <<"t", "i", "m", "e", "o", "u", "t">>
TIMED_OUT == <<"t", "i", "m", "e", "d", " ", "o", "u", "t">>
PARAMETER == <<"p", "a", "r", "a", "m", "e", "t", "e", "r">>
INVALID == <<"i", "n", "v", "a", "l", "i", "d">>
SERVICE == <<"s", "e", "r", "v", "i", "c", "e">>
UNAVAILABLE == <<"u", "n", "a", "v", "a", "i", "l", "a", "b", "l", "e">>
UNKNOWN_ERROR == <<"u", "n", "k", "n", "o", "w", "n", " ", "e", "r", "r", "o", "r">>

\* a classifier that looks for a timeout before a network error
analyze_timeout_first(error_msg) ==
    IF OccursIn(TIMEOUT, error_msg) \/ OccursIn(TIMED_OUT, error_msg)
    THEN "timeout"
    ELSE IF OccursIn(NETWORK, error_msg) \/ OccursIn(CONNECTION, error_msg)
    THEN "network_error"
    ELSE IF OccursIn(PARAMETER, error_msg) \/ OccursIn(INVALID, error_msg)
    THEN "invalid_parameters"
    ELSE IF OccursIn(SERVICE, error_msg) \/ OccursIn(UNAVAILABLE, error_msg)
    THEN "service_unavailable"
    ELSE IF error_msg # <<>> /\ error_msg # UNKNOWN_ERROR
    THEN "execution_error"
    ELSE "unknown"

\* _analyze_failure_type lines 151-162, on the lower-cased message
analyze_failure_type(error_msg) ==
    IF OccursIn(NETWORK, error_msg) \/ OccursIn(CONNECTION, error_msg)
    THEN "network_error"
    ELSE IF OccursIn(TIMEOUT, error_msg) \/ OccursIn(TIMED_OUT, error_msg)
    THEN "timeout"
    ELSE IF OccursIn(PARAMETER, error_msg) \/ OccursIn(INVALID, error_msg)
    THEN "invalid_parameters"
    ELSE IF OccursIn(SERVICE, error_msg) \/ OccursIn(UNAVAILABLE, error_msg)
    THEN "service_unavailable"
    ELSE IF error_msg # <<>> /\ error_msg # UNKNOWN_ERROR
    THEN "execution_error"
    ELSE "unknown"

\* tool_specific_messages lines 28-68: the number of messages a tool has for
\* a failure type, 0 when it has none
tool_specific_messages(tool_name, failure_type) ==
    IF tool_name = "play_youtube_video"
    THEN (IF failure_type = "execution_error" THEN 3
          ELSE IF failure_type \in {"network_error", "invalid_parameters"} THEN 2
          ELSE 0)
    ELSE IF tool_name = "get_weather"
    THEN (IF failure_type = "execution_error" THEN 3
          ELSE IF failure_type = "network_error" THEN 1 ELSE 0)
    ELSE IF tool_name \in {"calculate_math", "search_web"}
    THEN (IF failure_type = "execution_error" THEN 3 ELSE 0)
    ELSE 0

\* generic_messages lines 71-103: the number of messages of a failure type
generic_messages(failure_type) == IF failure_type = "execution_error" THEN 4 ELSE 3

\* _get_fallback_message lines 164-177: the list random.choice draws from
FallbackMessages(tool_name, failure_type) ==
    IF tool_specific_messages(tool_name, failure_type) > 0
    THEN [from |-> tool_name, count |-> tool_specific_messages(tool_name, failure_type)]
    ELSE [from |-> "generic", count |-> generic_messages(failure_type)]

\* _get_luna_mood lines 190-201
get_luna_mood(failure_type) ==
    IF failure_type = "execution_error" THEN "apologetic"
    ELSE IF failure_type = "network_error" THEN "frustrated"
    ELSE IF failure_type = "invalid_parameters" THEN "confused"
    ELSE IF failure_type = "service_unavailable" THEN "disappointed"
    ELSE IF failure_type = "timeout" THEN "impatient"
    ELSE "puzzled"

\* _get_emergency_fallback lines 203-216
get_emergency_fallback ==
    [failure_type |-> "emergency_fallback", from |-> "emergency", message |-> 1,
     luna_mood |-> "sheepish"]

\* ToolFailureHandler.handle_failure lines 105-144; a value of error_type
\* that is no string makes line 149 raise
HandleFailure ==
    /\ ~failure.done
    /\ IF ~failure.error_type_is_text
       THEN failure' = [failure EXCEPT !.done = TRUE,
                                       !.response = get_emergency_fallback]
       ELSE LET failure_type == analyze_failure_type(LowerText(failure.exception))
                candidates == FallbackMessages(failure.tool_name, failure_type)
            IN \E choice \in 1..candidates.count :
                  failure' = [failure EXCEPT
                                 !.done = TRUE,
                                 !.response = [failure_type |-> failure_type,
                                               from |-> candidates.from,
                                               message |-> choice,
                                               luna_mood |-> get_luna_mood(failure_type)]]
    /\ UNCHANGED <<orchestration, tools, tool_groups, reg_return, metadata,
                   performance_history, progress_callback, exec_return, selection,
                   in_flight>>

\* the tools a failure is reported for, one without messages of its own
FailedToolNames == {"play_youtube_video", "get_weather", "calculate_math",
                    "unlisted_tool"}

\* a ToolFailureHandler about to handle one failure
FailureInit ==
    /\ SignalsInit
    /\ tools = <<>>
    /\ tool_groups = <<>>
    /\ reg_return = NoRegistryCall
    /\ metadata = FreshMetadata
    /\ performance_history = <<>>
    /\ progress_callback = FALSE
    /\ exec_return = NoExecution
    /\ selection = None
    /\ in_flight = 0
    /\ failure \in [tool_name : FailedToolNames, exception : ErrorMessages,
                    error_type_is_text : BOOLEAN, done : {FALSE},
                    response : {get_emergency_fallback}]

FailureNext == HandleFailure

FailureSpec == FailureInit /\ [][FailureNext]_vars

(***************************************************************************)
(* Properties.                                                             *)
(***************************************************************************)
\* steps of the scheduler thread that the properties speak about
StartsPrimary == pc = "decide" /\ pc' = "prompt"
StartsPass == tool_passes_running' = tool_passes_running + 1
PrimaryStreamReturns == pc = "stream" /\ pc' = "loop"
ToolStreamReturns == tpc \in {"stream", "execute"} /\ tpc' = "done"
PromptReturned == pc = "clear" /\ pc' = "request"

\* C1: in every reachable state at most one tool-invocation pass started by
\* the scheduler is outstanding (started and not yet finished), and an
\* outstanding pass is the one the scheduler holds the future of
C1_SingleFlight ==
    /\ tool_passes_running <= 1
    /\ tool_passes_running = 1 => pending_tool_future # None

\* C1 witness: a pass is outstanding while a further trigger is already raised
C1_Witness == tool_passes_running = 1 /\ tool_execution_needed

\* C2: whenever a tick starts a primary generation, human_speaking,
\* AI_speaking and each of the three individual thinking flags are false
C2_StartsOnlyWhenAllIdle ==
    [][StartsPrimary =>
          /\ ~human_speaking
          /\ ~AI_speaking
          /\ ~text_llm_thinking
          /\ ~tool_llm_thinking
          /\ ~image_llm_thinking]_vars

\* C3: in every reachable state AI_thinking equals text_llm_thinking OR
\* tool_llm_thinking OR image_llm_thinking
C3_CombinedThinking ==
    AI_thinking = (text_llm_thinking \/ tool_llm_thinking \/ image_llm_thinking)

\* C4: no entry of history contains tool-trigger marker text or a raw
\* tool-result payload
C4_NoToolTextInHistory ==
    \A i \in 1..Len(history) :
        /\ ~Contains(history[i].content, OPEN)
        /\ \A id \in 1..(MaxToolEvents + 1) :
              ~Contains(history[i].content, ResultFrag(id))

\* C5: while a tool-invocation pass is outstanding the scheduler starts no
\* primary generation
C5_NoPrimaryDuringToolPass ==
    [][StartsPrimary => tool_passes_running = 0]_vars

\* C6: a trigger raised while a pass was outstanding is dropped: no pass is
\* ever started for it
C6_TriggerDuringPassDropped ==
    [][StartsPass => ~stale_trigger]_vars

\* the prompt that carries a narrative between system prompt and chat history
PromptWithNarrative(narrative, msgs) ==
    <<"SYSTEM_PROMPT">> \o narrative \o ChatSection(msgs) \o <<AI_NAME>>

\* C7: when prompt assembly has read tool results that yield a narrative, the
\* prompt it returns carries that narrative between the system prompt and
\* the chat history, and tool_results is empty when it returns
C7_NarrativeInPrompt ==
    [][(PromptReturned /\ narrative_due # <<>>) =>
          /\ full_prompt' = PromptWithNarrative(narrative_due, messages)
          /\ tool_results' = <<>>]_vars

\* C8: a tool_results list that yields a narrative is only ever replaced or
\* cleared by the step that returns a prompt with that narrative injected
C8_ResultsInjectedOnce ==
    [][(/\ tool_results # <<>>
        /\ ProcessToolResultsNaturally(tool_results) # <<>>
        /\ tool_results' # tool_results) =>
          /\ PromptReturned
          /\ tool_injections =
                <<Injection(ProcessToolResultsNaturally(tool_results), 30)>>]_vars

\* C9: a pass that set its thinking flag has cleared it when it returns
\* after its stream ended (completed, filtered or cancelled)
C9_ThinkingFlagCleared ==
    [][/\ PrimaryStreamReturns => ~text_llm_thinking'
       /\ ToolStreamReturns => ~tool_llm_thinking']_vars

\* C10: a primary generation that finds next_cancelled set when its stream
\* has ended leaves history, the tool trigger, AI_speaking and the text
\* handed to the TTS unchanged
C10_CancelDiscardsTurn ==
    [][(PrimaryStreamReturns /\ next_cancelled) =>
          /\ history' = history
          /\ tool_execution_needed' = tool_execution_needed
          /\ tool_trigger_request' = tool_trigger_request
          /\ AI_speaking' = AI_speaking
          /\ tts_text' = tts_text]_vars

\* C10 witness: a primary turn has just been cancelled
C10_Witness == pc = "loop" /\ turn_outcome = "cancelled"

\* steps of the two threads that the following properties speak about
TickStep == pc = "loop" /\ pc' = "decide"
RequestFailed == pc = "request" /\ pc' = "loop"
ToolPassReturns == tpc # "done" /\ tpc' = "done"

\* C11: a primary generation whose completion request fails returns with
\* history unchanged, no tool trigger raised and text_llm_thinking false
C11_TransportFailureEndsTurn ==
    [][RequestFailed =>
          /\ history' = history
          /\ tool_execution_needed' = tool_execution_needed
          /\ tool_trigger_request' = tool_trigger_request
          /\ ~text_llm_thinking']_vars

\* C12: every pass of the assembly loop either returns a prompt whose token
\* estimate is below 90% of the context budget, or raises the fatal error,
\* which it does exactly when no entry remains and the prompt is oversized,
\* or removes the oldest of at least one remaining entry; the number of
\* entries strictly decreases from N, so at most N removals happen
C12_PromptShrinkTerminates ==
    [][(pc = "clear" /\ pc' # pc) =>
          /\ pc' \in {"request", "crashed", "assemble"}
          /\ pc' = "request" =>
                /\ 10 * TokenCount(full_prompt') < 9 * CONTEXT_SIZE
                /\ full_prompt' = FullPrompt(messages, tool_injections)
          /\ pc' = "crashed" <=>
                /\ Len(messages) = 0
                /\ 10 * TokenCount(FullPrompt(messages, tool_injections))
                      >= 9 * CONTEXT_SIZE
          /\ pc' = "assemble" =>
                /\ Len(messages) >= 1
                /\ messages' = Tail(messages)
                /\ Len(history) - Len(messages') <= Len(history)]_vars

\* C12 witness: the assembly has removed two entries and returned a prompt
C12_Witness == pc = "request" /\ Len(messages) + 2 <= Len(history)

\* C13: a primary generation is only started when no primary generation
\* started earlier is still in progress
C13_OnePrimaryAtATime ==
    [][(pc' = "prompt" /\ pc # "prompt") => ~InPrimary]_vars

\* C13 witness: a second primary generation has been started
C13_Witness == pc = "prompt" /\ CountRole(history, "assistant") >= 1

\* C14: a step puts an AI_thinking event on the outbound queue if and only
\* if it changes AI_thinking, and the event carries the new value
C14_EventIffChange ==
    [][/\ (sio_put' # <<>>) <=> (AI_thinking' # AI_thinking)
       /\ sio_put' # <<>> => sio_put' = <<AI_thinking'>>]_vars

\* C15: on a tick where STT and TTS are ready and nobody is active, a primary
\* generation is started if and only if new_message is true or the chat
\* queue is non-empty or the idle time exceeds PATIENCE; and the prompt of a
\* generation started by idle time alone, with no tool results pending,
\* carries no tool-result injection
C15_TriggerConditions ==
    [][/\ (/\ pc = "decide"
           /\ pc' # pc
           /\ stt_ready /\ tts_ready
           /\ ~human_speaking /\ ~AI_thinking /\ ~AI_speaking) =>
             ((pc' = "prompt") <=> (\/ new_message
                                    \/ recentTwitchMessages > 0
                                    \/ timeSinceLastMessage > PATIENCE))
       /\ (PromptReturned /\ turn_cause = "idle") =>
             full_prompt' = <<"SYSTEM_PROMPT">> \o ChatSection(messages)
                            \o <<AI_NAME>>]_vars

\* C16: while STT or TTS is not ready no primary generation is started, and
\* every tick resets last_message_time, so the idle time stays below PATIENCE
C16_NotReadyNoGeneration ==
    [][/\ StartsPrimary => (stt_ready /\ tts_ready)
       /\ (TickStep /\ (~stt_ready \/ ~tts_ready)) =>
             /\ last_message_time' = now
             /\ timeSinceLastMessage' < PATIENCE]_vars

\* C16 witness: a tick has reset the clock after time has passed while the
\* speech-to-text subsystem is not ready
C16_Witness ==
    /\ pc = "decide"
    /\ ~stt_ready
    /\ history = <<>>
    /\ now > PATIENCE
    /\ last_message_time = now

C18_AllCallsFailStatus ==
    [][(/\ ToolPassReturns
        /\ tpc = "execute"
        /\ tool_calls > 0
        /\ \A i \in 1..Len(tool_results') :
              tool_results'[i].kind = "raw" =>
                 tool_results'[i].outcome # "success") =>
          ProcessToolResultsNaturally(tool_results') = FAILURE_NOTE]_vars

\* C19: the end of a tool pass, however it ends, never moves the scheduler
\* thread out of its loop, and the tick that finds the future done resets
\* pending_tool_future to None (or replaces it by the future of a pass it
\* starts for a trigger raised since)
C19_SchedulerSurvivesToolFailure ==
    [][/\ ToolPassReturns => pc' = pc
       /\ (pc = "loop" /\ ~terminate /\ pc' # pc) => pc' = "decide"
       /\ (TickStep /\ pending_tool_future # None /\ tpc = "done") =>
             \/ pending_tool_future' = None /\ tpc' = "idle"
             \/ tool_execution_needed /\ tpc' = "start"]_vars

\* C19 witness: payload preparation raised in a pass, and a later tick has
\* found the future done and reset it
C19_Witness ==
    /\ pc = "decide"
    /\ tpc = "idle"
    /\ pending_tool_future = None
    /\ tool_llm_thinking

\* the text holds a blacklisted term as a word of its own, in any letter case
HasBlacklistedWord(text) ==
    \E i \in 1..Len(text) : Lower(text[i]) \in Blacklist

\* C20: a completed primary generation stores in history and hands to the TTS
\* the placeholder 'Filtered.' when its text holds a blacklisted term as a
\* whole word in any letter case, and the cleaned generated text otherwise
C20_BlacklistFilter ==
    [][(PrimaryStreamReturns /\ ~next_cancelled) =>
          LET said == IF HasBlacklistedWord(CleanMessage(AI_message))
                      THEN FILTERED ELSE CleanMessage(AI_message)
          IN /\ history' = Append(history, [role |-> "assistant", content |-> said])
             /\ tts_text' = said]_vars

\* a step of the tool thread
ToolPassStep ==
    /\ tpc \in {"start", "request", "stream", "execute"}
    /\ tpc' # tpc \/ toolLocals' # toolLocals

\* C21: a tool-invocation pass, on every path (disabled, cancelled, no tools
\* needed, calls executed, exception), leaves history unchanged, never sets
\* AI_speaking and never hands text to the TTS
C21_ToolPassFrame ==
    [][ToolPassStep => /\ history' = history
                       /\ AI_speaking' = AI_speaking
                       /\ tts_text' = tts_text]_vars

\* a pass that executed its tool calls has returned, with a history in store
C21_Witness ==
    /\ tpc = "done"
    /\ tool_outcome = "executed"
    /\ history # <<>>
    /\ ~AI_speaking

\* C22: prompt assembly never changes the stored history: while
\* generate_prompt runs, and when it returns or raises, history keeps its
\* entries and their contents, whatever was dropped from or labelled in the copy
C22_AssemblyKeepsHistory ==
    [][(pc \in {"prompt", "assemble", "clear"}) => (history' = history)]_vars

\* generate_prompt has returned after dropping entries from the labelled copy
C22_Witness ==
    /\ pc = "request"
    /\ messages # <<>>
    /\ Len(messages) < Len(history)
    /\ messages[1] # history[Len(history) - Len(messages) + 1]

\* no name occurs twice in the list
NoDuplicates(list) ==
    \A i, j \in 1..Len(list) : list[i] = list[j] => i = j

\* C23: after any sequence of register_tool and unregister_tool calls, every
\* name listed in any group of tool_groups is a key of the tools mapping
C23_GroupsWithinTools ==
    \A g \in DOMAIN tool_groups :
        \A i \in 1..Len(tool_groups[g]) : tool_groups[g][i] \in DOMAIN tools

\* a tool listed in two groups has been unregistered while another stays listed
C23_Witness ==
    /\ reg_return.op = "unregister_tool"
    /\ reg_return.ret
    /\ reg_return.listed = 2
    /\ \E g \in DOMAIN tool_groups : tool_groups[g] # <<>>

\* C24: register_tool inserts or replaces by name and is idempotent: the
\* registered tool is the entry of its name, the other entries stay, no group
\* list holds a name twice, and registering the same tool in the same group
\* again leaves the tools mapping and every group list as they were
C24_RegisterIdempotent ==
    [][(reg_return'.op = "register_tool" /\ reg_return'.ret) =>
          /\ DOMAIN tools' = DOMAIN tools \cup {reg_return'.name}
          /\ tools'[reg_return'.name] = reg_return'.tool
          /\ \A n \in DOMAIN tools \ {reg_return'.name} : tools'[n] = tools[n]
          /\ InList(tool_groups'[reg_return'.group], reg_return'.name)
          /\ \A g \in DOMAIN tool_groups' : NoDuplicates(tool_groups'[g])
          /\ reg_return'.again => /\ tools' = tools
                                  /\ tool_groups' = tool_groups]_vars

\* the same tool has been registered in the same group twice in a row, under
\* a name that another tool held before
C24_Witness ==
    /\ reg_return.op = "register_tool"
    /\ reg_return.again
    /\ reg_return.tool = OtherMathTool
    /\ Cardinality(DOMAIN tools) = 2

\* C25: unregister_tool(name) for a registered name removes the name from the
\* tools mapping and from every group list, also when several groups list it,
\* and returns True; for an absent name it returns False and changes nothing
C25_UnregisterRemoves ==
    [][reg_return'.op = "unregister_tool" =>
          IF reg_return'.name \in DOMAIN tools
          THEN /\ reg_return'.ret
               /\ DOMAIN tools' = DOMAIN tools \ {reg_return'.name}
               /\ \A n \in DOMAIN tools' : tools'[n] = tools[n]
               /\ DOMAIN tool_groups' = DOMAIN tool_groups
               /\ \A g \in DOMAIN tool_groups :
                      /\ ~InList(tool_groups'[g], reg_return'.name)
                      /\ \A n \in DOMAIN tools' :
                             InList(tool_groups'[g], n) = InList(tool_groups[g], n)
          ELSE /\ ~reg_return'.ret
               /\ tools' = tools
               /\ tool_groups' = tool_groups]_vars

\* a registered name that two groups listed, behind another name in one of
\* them, has been unregistered
C25_Witness ==
    /\ reg_return.op = "unregister_tool"
    /\ reg_return.ret
    /\ reg_return.listed = 2
    /\ reg_return.name = "get_weather"
    /\ \E g \in DOMAIN tool_groups : tool_groups[g] = <<"calculate_math">>

\* a call of execute_with_monitoring
ExecStep == exec_return'.call # exec_return.call

\* C26: execute_with_monitoring never propagates an exception: when execute or
\* a progress callback raises, error_count grows by one, status is ERROR,
\* is_running is cleared and the error payload is returned; when nothing
\* raises the tool's result is returned with status AVAILABLE and error_count
\* unchanged
C26_NeverPropagates ==
    [][ExecStep =>
          /\ exec_return'.kind # "raised"
          /\ IF exec_return'.raised_in # None
             THEN /\ metadata'.error_count = metadata.error_count + 1
                  /\ metadata'.status = "error"
                  /\ ~metadata'.is_running
                  /\ exec_return'.kind = "error"
             ELSE /\ exec_return'.kind = "result"
                  /\ metadata'.status = "available"
                  /\ metadata'.error_count = metadata.error_count]_vars

\* the exception of a raising progress callback has reached the caller
C26_CallbackRaised ==
    /\ exec_return.kind = "raised"
    /\ exec_return.raised_in = "callback"
    /\ progress_callback

\* the k most recent samples of hist
MostRecent(hist, k) == SubSeq(hist, Len(hist) - k + 1, Len(hist))

\* C27: after every successful execute_with_monitoring call
\* average_response_time is the mean of at most the 50 most recent samples,
\* and the sample buffer never holds more than 50 samples between calls
C27_MovingAverage ==
    [][/\ Len(performance_history') <= PERFORMANCE_WINDOW
       /\ (ExecStep /\ exec_return'.kind = "result") =>
             \E k \in 1..Len(performance_history') :
                 metadata'.average_response_time.sum * k =
                     SumSeq(MostRecent(performance_history', k))
                         * metadata'.average_response_time.n]_vars

\* the average a successful call left was taken over 51 samples and differs
\* from the mean of the 50 samples in the buffer
C27_AverageOfTooMany ==
    /\ exec_return.kind = "result"
    /\ metadata.average_response_time.n = PERFORMANCE_WINDOW + 1
    /\ Len(performance_history) = PERFORMANCE_WINDOW
    /\ metadata.average_response_time.sum * PERFORMANCE_WINDOW #
           SumSeq(performance_history) * metadata.average_response_time.n

\* the vector index cannot answer
IndexUnavailable == selection.collection.state \in {"none", "raises"}

\* C28: with the vector index unavailable (no collection, or a query that
\* raises), select_relevant_tools with strategy SEMANTIC_ONLY returns the same
\* set of tools as with strategy KEYWORD_ONLY for the same input, registry,
\* max_tools and prefer_static
C28_SemanticFallsBackToKeyword ==
    (selection.done /\ selection.context.strategy = "semantic_only"
                    /\ IndexUnavailable) =>
        Range(selection.result) =
            Range(select_relevant_tools(
                      tools, [selection.context EXCEPT !.strategy = "keyword_only"],
                      selection.collection, selection.order).result)

\* a semantic-only selection whose query raised has returned one of the two
\* tools the keywords matched
C28_Witness ==
    /\ selection.done
    /\ selection.context.strategy = "semantic_only"
    /\ selection.collection.state = "raises"
    /\ Len(selection.picked) = 2
    /\ Len(selection.result) = 1

\* the built-in tool that serves a category
BuiltInTool(category) ==
    CASE category = "computation" -> MathTool
      [] category = "information" -> WeatherTool
      [] category = "search" -> WebSearchTool
      [] category = "entertainment" -> YouTubeTool

\* C29: on the registry filled by _register_default_tools, with all tools
\* available, keyword selection on an input that matches no keyword returns
\* exactly one tool, the web-search tool, and on an input that contains a
\* keyword of a category it returns that category's tools
C29_KeywordDefaults ==
    (selection.done /\ selection.context.strategy = "keyword_only"
                    /\ tools = DefaultRegistry.tools) =>
        /\ MatchedCategories(selection.context.user_input) = {} =>
               selection.picked = <<WebSearchTool>>
        /\ \A c \in MatchedCategories(selection.context.user_input) :
               BuiltInTool(c.category) \in Range(selection.picked)

\* keyword selection on the built-in registry has returned no tool for an
\* input without keywords
C29_NoDefaultTool ==
    /\ selection.done
    /\ selection.context.strategy = "keyword_only"
    /\ tools = DefaultRegistry.tools
    /\ MatchedCategories(selection.context.user_input) = {}
    /\ selection.picked = <<>>

\* C30: hybrid selection returns the keyword matches followed by semantic
\* matches that are not keyword matches (all of them while max_tools allows),
\* holds no tool twice, the truncated result has at most max_tools tools, and
\* with prefer_static no keyword match is dropped while a semantic-only match
\* of the same kind is kept
C30_HybridOrder ==
    (selection.done /\ selection.context.strategy \in {"hybrid", "smart"}) =>
        LET kw == keyword_selection(tools, selection.context.user_input,
                                    selection.order)
            sem == semantic_selection(tools, selection.context.user_input,
                                      selection.collection, selection.order)
            semOnly == Range(sem) \ Range(kw)
            picked == selection.picked
            result == selection.result
        IN /\ Len(picked) >= Len(kw)
           /\ SubSeq(picked, 1, Len(kw)) = kw
           /\ \A i \in (Len(kw) + 1)..Len(picked) : picked[i] \in semOnly
           /\ Len(kw) + Cardinality(semOnly) <= selection.context.max_tools =>
                  Range(picked) = Range(kw) \cup semOnly
           /\ NoDuplicates(picked)
           /\ NoDuplicates(result)
           /\ Len(result) <= selection.context.max_tools
           /\ selection.context.prefer_static =>
                  \A k \in Range(kw) \ Range(result) :
                      \A s \in Range(result) \ Range(kw) : s.type # k.type

\* a hybrid selection with prefer_static has returned max_tools tools: a
\* static semantic match ahead of a dynamic keyword match
C30_Witness ==
    /\ selection.done
    /\ selection.context.strategy = "hybrid"
    /\ selection.context.prefer_static
    /\ selection.collection.state = "ok"
    /\ selection.result = <<MemoryTool, MathTool>>
    /\ selection.context.max_tools = 2

\* C31: select_relevant_tools never raises; when selection fails internally
\* it returns at most 3 tools, all of the STATIC kind, and the returned list
\* is empty only if the registry itself is empty
C31_SafeFallback ==
    (selection.done /\ selection.failed) =>
        /\ Len(selection.result) <= FALLBACK_MAX_TOOLS
        /\ \A i \in 1..Len(selection.result) : selection.result[i].type = "static"
        /\ selection.result = <<>> => tools = <<>>

\* C31: a failed selection on the registry of the built-in tools, which are
\* all DYNAMIC, has returned no tool
C31_EmptyHanded ==
    /\ selection.done /\ selection.failed
    /\ selection.result = <<>>
    /\ tools = DefaultRegistry.tools

\* C31: a failed selection on a registry with five STATIC tools has returned
\* the first three
C31_ThreeStatic ==
    /\ selection.done /\ selection.failed
    /\ Len(selection.result) = FALLBACK_MAX_TOOLS
    /\ Cardinality({n \in DOMAIN tools : tools[n].type = "static"}) > FALLBACK_MAX_TOOLS

\* the patterns of the failure categories in the priority order of the claim
PatternOrder ==
    << [type |-> "network_error", patterns |-> {NETWORK, CONNECTION}],
       [type |-> "timeout", patterns |-> {TIMEOUT, TIMED_OUT}],
       [type |-> "invalid_parameters", patterns |-> {PARAMETER, INVALID}],
       [type |-> "service_unavailable", patterns |-> {SERVICE, UNAVAILABLE}] >>

\* the message matches a pattern of the k-th category
MatchesCategory(k, message) ==
    \E pattern \in PatternOrder[k].patterns : OccursIn(pattern, LowerText(message))

\* the handler has classified the failure (classification did not throw)
Classified == failure.done /\ failure.response.failure_type \in FailureTypes

\* the category is that of the earliest matching pattern
EarliestPatternWins ==
    \A k \in 1..Len(PatternOrder) :
        (/\ MatchesCategory(k, failure.exception)
         /\ \A j \in 1..(k - 1) : ~MatchesCategory(j, failure.exception)) =>
            failure.response.failure_type = PatternOrder[k].type

NoPatternMatches ==
    \A k \in 1..Len(PatternOrder) : ~MatchesCategory(k, failure.exception)

\* C32: the failure category is a function of the error message alone, in
\* the priority order network, timeout, invalid-parameters,
\* service-unavailable, then execution-error for any other non-empty
\* message, then unknown, whatever the tool name and the message drawn
C32_CategoryByPriority ==
    Classified =>
        /\ EarliestPatternWins
        /\ NoPatternMatches =>
              failure.response.failure_type =
                  IF failure.exception # <<>> THEN "execution_error" ELSE "unknown"

\* C32 amended: as C32, where a message that matches no pattern gets
\* execution-error unless it is empty or, in any letter case, the
\* placeholder 'unknown error', which get unknown
C32_CategoryByPriorityOrPlaceholder ==
    Classified =>
        /\ EarliestPatternWins
        /\ NoPatternMatches =>
              failure.response.failure_type =
                  IF /\ failure.exception # <<>>
                     /\ LowerText(failure.exception) # UNKNOWN_ERROR
                  THEN "execution_error" ELSE "unknown"

\* C32 witness: a message that matches the network and the timeout patterns
\* was classified for a tool that has messages of its own, the second drawn
C32_Witness ==
    /\ Classified
    /\ MatchesCategory(1, failure.exception)
    /\ MatchesCategory(2, failure.exception)
    /\ failure.tool_name = "play_youtube_video"
    /\ failure.response.message = 2

\* C33: terminate is never set back to false, and once it is true the
\* scheduler starts no further primary generation or tool pass and leaves
\* its loop at the next check of the loop condition
C33_TerminateStopsScheduler ==
    [][/\ terminate => terminate'
       /\ terminate => (~StartsPrimary /\ ~StartsPass)
       /\ (terminate /\ pc = "loop" /\ pc' # pc) => pc' = "exited"]_vars

\* C33: shutdown was requested between the loop-condition check of a tick
\* and its prompt_now decision, while a chat message waits for an answer
C33_TerminateDuringTick ==
    /\ terminate
    /\ pc = "decide"
    /\ prompt_now

\* some generation pass has been started and has not returned
PassInProgress ==
    \/ pc \in {"prompt", "assemble", "clear", "request", "stream"}
    \/ tpc \in {"start", "request", "stream", "execute"}

\* C37: in every reachable state AI_thinking implies that a generation pass is
\* in progress, so once every started pass has returned AI_thinking is false
C37_ThinkingMeansWorking == AI_thinking => PassInProgress

\* C37: a primary turn ended on a transport failure while a tool pass ran,
\* and that pass has since run to completion
C37_AllPassesReturned ==
    /\ ~PassInProgress
    /\ AI_thinking
    /\ text_llm_thinking
    /\ ~tool_llm_thinking
    /\ tool_outcome \notin {None, "cancelled", "payload_error"}
    /\ tpc = "done"

\* an inbound message is the newest entry of the history and its
\* new_message flag is still raised
InboundPending ==
    /\ new_message
    /\ history # <<>>
    /\ history[Len(history)].role = "user"

\* C38: a new_message flag raised by an inbound message is cleared only by
\* the start of a primary generation, never by a step of a tool pass
C38_OnlyPrimaryClearsNewMessage ==
    [][(InboundPending /\ ~new_message') =>
          (pc = "prompt" /\ pc' = "assemble" /\ ~ToolPassStep)]_vars

\* C38: a chat message arrived after the scheduler started a tool pass and
\* before the pass set its thinking flag
C38_MessageMeetsStartingPass ==
    /\ InboundPending
    /\ tpc = "start"
    /\ enabled

\* a primary generation ends its turn by raising the tool trigger and
\* writing its request text
RaisesTrigger ==
    /\ pc = "stream" /\ pc' = "loop"
    /\ ~CancelObserved
    /\ ToolTriggered(AI_message)

\* C35: the tool request is one-shot: a tick that finds the trigger raised
\* and no pass outstanding starts one pass, the trigger is false right after
\* a pass is started and only the start of a pass clears it, and no primary
\* generation rewrites the request between the start of a pass and the
\* moment the pass reads it
C35_OneShotTrigger ==
    [][/\ (TickStep /\ tool_execution_needed /\ FutureAfterPoll = None) => StartsPass
       /\ StartsPass => (TickStep /\ ~tool_execution_needed')
       /\ (tool_execution_needed /\ ~tool_execution_needed') => StartsPass
       /\ RaisesTrigger => tpc # "start"]_vars

\* C35: a pass has been started for a raised trigger and has not read its
\* request yet, while a primary generation that carries a marker is streaming
C35_RequestRewrittenBeforeRead ==
    /\ tpc = "start"
    /\ ~tool_execution_needed
    /\ pc = "stream"
    /\ ToolTriggered(AI_message)

\* C36: the scheduler loop never blocks on a generation: while a primary
\* generation is streaming the scheduler can take its next tick, which
\* observes a completed tool pass and dispatches a pending trigger
C36_TicksDuringStreaming == pc = "stream" => ENABLED Tick

\* C36: a tool pass has completed while a primary generation is streaming
\* and its future has not been polled
C36_CompletionWaitsForStream ==
    /\ pc = "stream"
    /\ FutureDone
    /\ ~terminate

\* a tool pass has finished and the results it wrote wait to be read
PassLeftResults ==
    /\ tpc = "done"
    /\ tool_outcome \notin {None, "cancelled"}
    /\ tool_results # <<>>
    /\ ProcessToolResultsNaturally(tool_results) # <<>>

\* a primary generation has built its tool injection from tool_results
ResultsAssembled == pc = "clear" /\ tool_injections # <<>>

\* the primary turns of the model are used up, or the process has aborted
NoTurnLeft == CountRole(history, "assistant") >= MaxTurns \/ pc = "crashed"

\* C34: with the speech subsystems ready, nobody speaking and every thread
\* running, a tool pass that finishes without being cancelled is eventually
\* followed by a primary generation that assembles its prompt from the
\* results the pass wrote
C34_ResultsReachPrimary == PassLeftResults ~> (ResultsAssembled \/ NoTurnLeft)

\* C34: a tool pass has left results while one primary turn is still to come
C34_ResultsWaiting ==
    /\ PassLeftResults
    /\ ~NoTurnLeft
    /\ pc \in {"loop", "decide"}

\* C39: in every reachable state the tool's error_count is at most its
\* usage_count, however its execute_with_monitoring calls overlap with each
\* other and with reset_metrics
C39_ErrorsWithinUses == metadata.error_count <= metadata.usage_count

\* C39: the metrics were reset while a call was suspended in execute, and
\* the call has since ended in the except branch
C39_ResetDuringCall ==
    /\ metadata.usage_count = 0
    /\ metadata.error_count = 1
    /\ metadata.status = "error"
    /\ in_flight = 0

\* C40: every entry handle_tool_calls returns pairs a call's id with the raw
\* result of that same call, and a call whose tool is unknown or whose
\* execution raised does not make the results of the batch disappear
C40_EntriesPairOwnResult ==
    /\ \A i \in 1..Len(tool_results) :
          tool_results[i].kind = "raw" => tool_results[i].of = tool_results[i].id
    /\ tool_outcome # "execution_error"

\* C40: a batch of three calls has been handled, the second of them for a
\* tool that is not registered
C40_UnknownToolInBatch ==
    /\ tpc = "done"
    /\ tool_outcome = "executed"
    /\ Len(tool_results) = 3
    /\ tool_results[2].of = 1
    /\ tool_results[3].of = 3

====
